---- MODULE Spec2Model ----
(***************************************************************************)
(* Tenant-scoped authorization core of Mordecai-api.                       *)
(*                                                                         *)
(* Part 1: the OrganizationUser model (membership rows, the permission     *)
(* matrix, the instance methods and the Sequelize lifecycle hooks).        *)
(***************************************************************************)
EXTENDS Integers, FiniteSets, Sequences, TLC

(***************************************************************************)
(* Bounds of the model.                                                    *)
(***************************************************************************)
\* Largest number of rows ever inserted into organization_users.
MaxRows == 2

\* At most this many organizations are ever created.
MaxOrgs == 4

\* At most this many organizations with a name and a slug are created.
MaxSlugs == 3

\* At most this many requests run concurrently.
MaxRequests == 2

\* The number of retries the slug loop is held to.
MaxRetries == 2

\* The organizations table holds this many rows while a traversal is
\* followed step by step.
MaxGraph == 3

OrganizationIds == {"o1", "o2"}

(***************************************************************************)
(* JavaScript / JSONB values.  A value is a record tagged with its type so *)
(* that null, undefined, booleans, strings and objects stay distinct.      *)
(***************************************************************************)
Undefined == [t |-> "undefined"]
Null == [t |-> "null"]
True == [t |-> "boolean", v |-> TRUE]
False == [t |-> "boolean", v |-> FALSE]
Str(s) == [t |-> "string", v |-> s]
Obj(f) == [t |-> "object", v |-> f]
EmptyObject == Obj(<<>>)

\* JavaScript truthiness (the operand of `!` and `||`).
Truthy(x) ==
    \/ x.t = "object"
    \/ (x.t = "boolean" /\ x.v)
    \/ (x.t = "string" /\ x.v # "")
    \/ x.t = "function"
    \/ (x.t = "host" /\ x.v # <<>>)

\* Object.keys(o)
Keys(o) == DOMAIN o.v

\* o[k] for a value o that is neither null nor undefined: a missing key, and
\* any key of a primitive, reads as undefined.
Get(o, k) ==
    IF o.t = "object" /\ k \in DOMAIN o.v THEN o.v[k] ELSE Undefined

\* o[k] as JavaScript evaluates it: reading a property of null or undefined
\* raises a TypeError.
Read(o, k) ==
    IF o.t \in {"null", "undefined"}
    THEN [threw |-> TRUE, value |-> Undefined]
    ELSE [threw |-> FALSE, value |-> Get(o, k)]

\* o[k] = val on an object o.
Put(o, k, val) ==
    Obj([x \in (DOMAIN o.v) \cup {k} |-> IF x = k THEN val ELSE o.v[x]])

(***************************************************************************)
(* The role enum and the permission matrix.                                *)
(***************************************************************************)
Roles == {"owner", "admin", "manager", "employee", "viewer", "guest"}

\* The column default of `role`.
RoleDefaultValue == "employee"

\* The column default of `permissions`: every cell false.
PermissionsDefaultValue ==
    Obj([users |-> Obj([read |-> False, write |-> False, delete |-> False, invite |-> False]),
         organizations |-> Obj([read |-> False, write |-> False, delete |-> False, settings |-> False]),
         reports |-> Obj([read |-> False, write |-> False, export |-> False]),
         billing |-> Obj([read |-> False, write |-> False]),
         api |-> Obj([read |-> False, write |-> False])])

\* The table with the viewer row lacking its api entry.
rolePermissions_ViewerWithoutApi ==
    LET row(u, o, r, b, a) ==
            Obj([users |-> Obj([read |-> u[1], write |-> u[2], delete |-> u[3], invite |-> u[4]]),
                 organizations |-> Obj([read |-> o[1], write |-> o[2], delete |-> o[3], settings |-> o[4]]),
                 reports |-> Obj([read |-> r[1], write |-> r[2], export |-> r[3]]),
                 billing |-> Obj([read |-> b[1], write |-> b[2]]),
                 api |-> Obj([read |-> a[1], write |-> a[2]])])
        T == True
        F == False
    IN  [owner |-> row(<<T, T, T, T>>, <<T, T, T, T>>, <<T, T, T>>, <<T, T>>, <<T, T>>),
         admin |-> row(<<T, T, T, T>>, <<T, T, F, T>>, <<T, T, T>>, <<T, F>>, <<T, T>>),
         manager |-> row(<<T, T, F, T>>, <<T, F, F, F>>, <<T, T, T>>, <<F, F>>, <<T, F>>),
         employee |-> row(<<T, F, F, F>>, <<T, F, F, F>>, <<T, F, F>>, <<F, F>>, <<F, F>>),
         viewer |->
            Obj([users |-> Obj([read |-> T, write |-> F, delete |-> F, invite |-> F]),
                 organizations |-> Obj([read |-> T, write |-> F, delete |-> F, settings |-> F]),
                 reports |-> Obj([read |-> T, write |-> F, export |-> F]),
                 billing |-> Obj([read |-> F, write |-> F])]),
         guest |-> row(<<F, F, F, F>>, <<T, F, F, F>>, <<F, F, F>>, <<F, F>>, <<F, F>>)]

\* The table literal inside getRolePermissions.
rolePermissions ==
    [owner |->
        Obj([users |-> Obj([read |-> True, write |-> True, delete |-> True, invite |-> True]),
             organizations |-> Obj([read |-> True, write |-> True, delete |-> True, settings |-> True]),
             reports |-> Obj([read |-> True, write |-> True, export |-> True]),
             billing |-> Obj([read |-> True, write |-> True]),
             api |-> Obj([read |-> True, write |-> True])]),
     admin |->
        Obj([users |-> Obj([read |-> True, write |-> True, delete |-> True, invite |-> True]),
             organizations |-> Obj([read |-> True, write |-> True, delete |-> False, settings |-> True]),
             reports |-> Obj([read |-> True, write |-> True, export |-> True]),
             billing |-> Obj([read |-> True, write |-> False]),
             api |-> Obj([read |-> True, write |-> True])]),
     manager |->
        Obj([users |-> Obj([read |-> True, write |-> True, delete |-> False, invite |-> True]),
             organizations |-> Obj([read |-> True, write |-> False, delete |-> False, settings |-> False]),
             reports |-> Obj([read |-> True, write |-> True, export |-> True]),
             billing |-> Obj([read |-> False, write |-> False]),
             api |-> Obj([read |-> True, write |-> False])]),
     employee |->
        Obj([users |-> Obj([read |-> True, write |-> False, delete |-> False, invite |-> False]),
             organizations |-> Obj([read |-> True, write |-> False, delete |-> False, settings |-> False]),
             reports |-> Obj([read |-> True, write |-> False, export |-> False]),
             billing |-> Obj([read |-> False, write |-> False]),
             api |-> Obj([read |-> False, write |-> False])]),
     viewer |->
        Obj([users |-> Obj([read |-> True, write |-> False, delete |-> False, invite |-> False]),
             organizations |-> Obj([read |-> True, write |-> False, delete |-> False, settings |-> False]),
             reports |-> Obj([read |-> True, write |-> False, export |-> False]),
             billing |-> Obj([read |-> False, write |-> False]),
             api |-> Obj([read |-> False, write |-> False])]),
     guest |->
        Obj([users |-> Obj([read |-> False, write |-> False, delete |-> False, invite |-> False]),
             organizations |-> Obj([read |-> True, write |-> False, delete |-> False, settings |-> False]),
             reports |-> Obj([read |-> False, write |-> False, export |-> False]),
             billing |-> Obj([read |-> False, write |-> False]),
             api |-> Obj([read |-> False, write |-> False])])]

\* Property names every object literal inherits from Object.prototype; reading
\* one of them yields a function, which is truthy.
ObjectPrototypeKeys == {"constructor", "toString", "valueOf", "hasOwnProperty"}

Function(name) == [t |-> "function", v |-> name]

\* OrganizationUser.getRolePermissions: rolePermissions[role] || rolePermissions.guest
\* (rolePermissions is an object literal, so the lookup also sees the inherited
\* properties).
getRolePermissions(role) ==
    IF role \in DOMAIN rolePermissions THEN rolePermissions[role]
    ELSE IF role \in ObjectPrototypeKeys THEN Function(role)
    ELSE rolePermissions["guest"]

(***************************************************************************)
(* State.                                                                  *)
(*   rows    the organization_users table, in insertion order; a row keeps *)
(*           its place when it is soft-deleted (paranoid: true)            *)
(*   custom  history: for each row, the cells granted explicitly (supplied *)
(*           true at creation or set by grantPermission and not revoked)   *)
(*   last    the most recent call and what it returned                     *)
(*   req     the request in progress: its inputs, the position of the      *)
(*           tenant middleware handling it, what the middleware attached   *)
(*           and how it ended                                              *)
(*   guard   the access guard that ran last on the request, and its result *)
(*   users   the users table                                               *)
(*   orgs    the organizations table with its parent references, in        *)
(*           insertion order; a row keeps its place when soft-deleted      *)
(*   walk    the hierarchy traversal in progress                           *)
(***************************************************************************)
VARIABLES rows, custom, last, req, guard, users, orgs, walk, slugs, procs, accounts

vars == <<rows, custom, last, req, guard, users, orgs, walk, slugs, procs, accounts>>

\* The tables and the traversal state of Part 3, which the operations of
\* Parts 1 and 2 leave alone.
part3Vars == <<users, orgs, walk>>

\* The slug column, the requests in progress and the user accounts of
\* Part 4, which the operations of Parts 1 to 3 leave alone.
part4Vars == <<slugs, procs, accounts>>

\* The cells the callers of grantPermission, revokePermission and
\* hasPermission name: fixed cells, an action the matrix does not have under
\* a resource it has, and a resource the matrix does not have.
Cells ==
    {<<"reports", "export">>, <<"users", "approve">>, <<"files", "read">>}

\* Permission objects a caller passes to create(): none, an empty object, a
\* partially shaped object holding a non-boolean cell, and a complete one.
PartialPermissions ==
    Obj([users |-> Obj([read |-> True]), reports |-> Obj([export |-> Str("yes")])])

FullPermissions ==
    Put(rolePermissions["guest"], "api", Obj([read |-> True, write |-> False]))

PermissionInputs == {Undefined, EmptyObject, PartialPermissions, FullPermissions}

NoCall ==
    [op |-> "none", ok |-> TRUE, id |-> 0, role |-> "", resource |-> "",
     action |-> "", given |-> FALSE, this |-> "", ret |-> Undefined]

Call(op, ok, id) == [NoCall EXCEPT !.op = op, !.ok = ok, !.id = id]

Live(id) == id \in DOMAIN rows /\ ~rows[id].deleted

\* The true cells of a permission object.
TrueCells(permissions) ==
    {c \in UNION {{<<r, a>> : a \in Keys(permissions.v[r])} : r \in Keys(permissions)} :
        permissions.v[c[1]].v[c[2]] = True}

(***************************************************************************)
(* Instance methods.                                                       *)
(***************************************************************************)
\* hasPermission testing the cell for truthiness instead of `=== true`.
hasPermission_Truthy(this, resource, action) ==
    LET permissions == IF Truthy(this.permissions) THEN this.permissions ELSE EmptyObject
        resourcePerms == Read(permissions, resource)
    IN  IF resourcePerms.threw THEN resourcePerms
        ELSE IF ~Truthy(resourcePerms.value) THEN [threw |-> FALSE, value |-> False]
        ELSE LET cell == Read(resourcePerms.value, action)
             IN  IF cell.threw THEN cell
                 ELSE [threw |-> FALSE, value |-> IF Truthy(cell.value) THEN True ELSE False]

\* OrganizationUser.prototype.hasPermission
hasPermission(this, resource, action) ==
    LET permissions == IF Truthy(this.permissions) THEN this.permissions ELSE EmptyObject
        resourcePerms == Read(permissions, resource)
    IN  IF resourcePerms.threw THEN resourcePerms
        ELSE IF ~Truthy(resourcePerms.value) THEN [threw |-> FALSE, value |-> False]
        ELSE LET cell == Read(resourcePerms.value, action)
             IN  IF cell.threw THEN cell
                 ELSE [threw |-> FALSE, value |-> IF cell.value = True THEN True ELSE False]

\* OrganizationUser.prototype.grantPermission: the object handed to update()
grantPermission(this, resource, action) ==
    LET permissions == this.permissions
        withResource ==
            IF ~Truthy(Get(permissions, resource))
            THEN Put(permissions, resource, EmptyObject)
            ELSE permissions
    IN  Put(withResource, resource, Put(Get(withResource, resource), action, True))

\* revokePermission replacing the resource's object instead of updating it.
revokePermission_ReplacesResource(this, resource, action) ==
    LET permissions == this.permissions
    IN  IF Truthy(Get(permissions, resource))
        THEN Put(permissions, resource, Put(EmptyObject, action, False))
        ELSE permissions

\* OrganizationUser.prototype.revokePermission: the object handed to update()
revokePermission(this, resource, action) ==
    LET permissions == this.permissions
    IN  IF Truthy(Get(permissions, resource))
        THEN Put(permissions, resource, Put(Get(permissions, resource), action, False))
        ELSE permissions

(***************************************************************************)
(* Hooks.                                                                  *)
(***************************************************************************)
\* Model.build: the column defaults fill every attribute the caller left
\* undefined, before any hook runs.
build(id, values) ==
    [id |-> id,
     userId |-> values.userId,
     organizationId |-> values.organizationId,
     role |-> IF values.role.t = "undefined" THEN RoleDefaultValue ELSE values.role.v,
     permissions |-> IF values.permissions.t = "undefined"
                     THEN PermissionsDefaultValue ELSE values.permissions,
     isActive |-> TRUE,
     lastAccessAt |-> Null,
     deleted |-> FALSE]

\* beforeCreate hook
beforeCreate(orgUser) ==
    IF ~Truthy(orgUser.permissions) \/ Cardinality(Keys(orgUser.permissions)) = 0
    THEN [orgUser EXCEPT !.permissions = getRolePermissions(orgUser.role)]
    ELSE orgUser

\* The merge loop of the beforeUpdate hook: the role's table, with every cell
\* the current object holds as true, under a resource the table has, set true.
mergedPermissions(roleTable, currentPermissions) ==
    Obj([resource \in Keys(roleTable) |->
            IF resource \in Keys(currentPermissions)
            THEN LET current == currentPermissions.v[resource]
                     kept == {action \in Keys(current) : current.v[action] = True}
                     table == roleTable.v[resource]
                 IN  Obj([action \in Keys(table) \cup kept |->
                            IF action \in kept THEN True ELSE table.v[action]])
            ELSE roleTable.v[resource]])

\* beforeUpdate hook; orgUser carries the new values, previous the loaded ones.
beforeUpdate(orgUser, previous) ==
    IF orgUser.role # previous.role
    THEN LET currentPermissions ==
                IF Truthy(orgUser.permissions) THEN orgUser.permissions ELSE EmptyObject
         IN  [orgUser EXCEPT !.permissions =
                mergedPermissions(getRolePermissions(orgUser.role), currentPermissions)]
    ELSE orgUser

\* The count query without its `id: { [Op.ne]: orgUser.id }` condition.
otherOwners_CountsSelf(orgUser) ==
    Cardinality({i \in DOMAIN rows :
        /\ ~rows[i].deleted
        /\ rows[i].organizationId = orgUser.organizationId
        /\ rows[i].role = "owner"
        /\ rows[i].isActive})

\* The count query of the beforeDestroy hook (a paranoid model's queries leave
\* soft-deleted rows out).
otherOwners(orgUser) ==
    Cardinality({i \in DOMAIN rows :
        /\ ~rows[i].deleted
        /\ rows[i].organizationId = orgUser.organizationId
        /\ rows[i].role = "owner"
        /\ rows[i].isActive
        /\ rows[i].id # orgUser.id})

\* beforeDestroy hook: does it throw?
beforeDestroy(orgUser) ==
    orgUser.role = "owner" /\ otherOwners(orgUser) = 0

\* A unique index that leaves soft-deleted rows out (a partial index on
\* deletedAt IS NULL).
unique_user_organization_LiveRowsOnly(userId, organizationId) ==
    \A i \in DOMAIN rows :
        ~(~rows[i].deleted
            /\ rows[i].userId = userId /\ rows[i].organizationId = organizationId)

\* The unique index unique_user_organization on (userId, organizationId): it
\* covers every row of the table, soft-deleted ones included.
unique_user_organization(userId, organizationId) ==
    \A i \in DOMAIN rows :
        ~(rows[i].userId = userId /\ rows[i].organizationId = organizationId)

(***************************************************************************)
(* Operations.                                                             *)
(***************************************************************************)
\* No request in progress: the fields of an Express request before any
\* middleware of this module has touched it.
NoRequest ==
    [mw |-> "none", pc |-> "idle",
     user |-> Undefined, params |-> EmptyObject, headers |-> EmptyObject, host |-> Undefined,
     tenantSlugFound |-> Null, organization |-> Null, threw |-> FALSE,
     tenant |-> Undefined, tenantId |-> Undefined, tenantSlug |-> Undefined,
     orgMembership |-> Undefined, orgRole |-> Undefined, orgPermissions |-> Undefined,
     queries |-> <<>>, stamp |-> "none",
     outcome |-> "none", status |-> 0, code |-> "", calls |-> 0,
     prior |-> Undefined]

NoGuard ==
    [name |-> "none", allowedRoles |-> <<>>, resource |-> "", action |-> "",
     outcome |-> "none", status |-> 0, code |-> ""]

\* No traversal in progress.
NoWalk == [op |-> "none", pc |-> "idle"]

Init ==
    /\ rows = <<>>
    /\ custom = <<>>
    /\ last = NoCall
    /\ req = NoRequest
    /\ guard = NoGuard
    /\ users = <<>>
    /\ orgs = <<>>
    /\ walk = NoWalk
    /\ slugs = <<>>
    /\ procs = <<>>
    /\ accounts = <<>>

\* OrganizationUser.create(values)
Create(values) ==
    /\ Len(rows) < MaxRows
    /\ LET orgUser == beforeCreate(build(Len(rows) + 1, values))
           inserted == unique_user_organization(orgUser.userId, orgUser.organizationId)
           call == IF inserted
                   THEN [Call("create", TRUE, orgUser.id)
                            EXCEPT !.given = values.permissions.t # "undefined",
                                   !.role = IF values.role.t = "undefined"
                                            THEN "" ELSE values.role.v]
                   ELSE Call("create", FALSE, 0)
       IN  /\ rows' = IF inserted THEN Append(rows, orgUser) ELSE rows
           /\ custom' = IF inserted
                        THEN Append(custom, IF values.permissions.t = "undefined"
                                            THEN {} ELSE TrueCells(values.permissions))
                        ELSE custom
           /\ last' = call
    /\ UNCHANGED <<req, guard>>
    /\ UNCHANGED part3Vars
    /\ UNCHANGED part4Vars

\* membership.destroy()
Destroy(id) ==
    /\ Live(id)
    /\ LET threw == beforeDestroy(rows[id])
       IN  /\ rows' = IF threw THEN rows ELSE [rows EXCEPT ![id].deleted = TRUE]
           /\ last' = Call("destroy", ~threw, id)
    /\ UNCHANGED <<custom, req, guard>>
    /\ UNCHANGED part3Vars
    /\ UNCHANGED part4Vars

\* membership.update({ role })
UpdateRole(id, role) ==
    /\ Live(id)
    /\ rows' = [rows EXCEPT ![id] = beforeUpdate([rows[id] EXCEPT !.role = role], rows[id])]
    /\ last' = [Call("updateRole", TRUE, id) EXCEPT !.role = role]
    /\ UNCHANGED <<custom, req, guard>>
    /\ UNCHANGED part3Vars
    /\ UNCHANGED part4Vars

\* membership.update({ isActive: false })
Deactivate(id) ==
    /\ Live(id)
    /\ rows' = [rows EXCEPT ![id] =
                    beforeUpdate([rows[id] EXCEPT !.isActive = FALSE], rows[id])]
    /\ last' = Call("deactivate", TRUE, id)
    /\ UNCHANGED <<custom, req, guard>>
    /\ UNCHANGED part3Vars
    /\ UNCHANGED part4Vars

\* membership.grantPermission(resource, action)
GrantPermission(id, resource, action) ==
    /\ Live(id)
    /\ LET permissions == grantPermission(rows[id], resource, action)
       IN  rows' = [rows EXCEPT ![id] =
                        beforeUpdate([rows[id] EXCEPT !.permissions = permissions], rows[id])]
    /\ custom' = [custom EXCEPT ![id] = @ \cup {<<resource, action>>}]
    /\ last' = [Call("grantPermission", TRUE, id)
                    EXCEPT !.resource = resource, !.action = action]
    /\ UNCHANGED <<req, guard>>
    /\ UNCHANGED part3Vars
    /\ UNCHANGED part4Vars

\* membership.revokePermission(resource, action)
RevokePermission(id, resource, action) ==
    /\ Live(id)
    /\ LET permissions == revokePermission(rows[id], resource, action)
       IN  rows' = [rows EXCEPT ![id] =
                        beforeUpdate([rows[id] EXCEPT !.permissions = permissions], rows[id])]
    /\ custom' = [custom EXCEPT ![id] = @ \ {<<resource, action>>}]
    /\ last' = [Call("revokePermission", TRUE, id)
                    EXCEPT !.resource = resource, !.action = action]
    /\ UNCHANGED <<req, guard>>
    /\ UNCHANGED part3Vars
    /\ UNCHANGED part4Vars

\* membership.hasPermission(resource, action) on an instance whose permissions
\* attribute is the stored one ("row"), was not selected ("undefined") or was
\* built as null ("null").
Instances == {"row", "undefined", "null"}

HasPermission(id, resource, action, instance) ==
    /\ Live(id)
    /\ LET this == [rows[id] EXCEPT !.permissions =
                        IF instance = "row" THEN @
                        ELSE IF instance = "null" THEN Null ELSE Undefined]
           result == hasPermission(this, resource, action)
       IN  last' = [Call("hasPermission", ~result.threw, id)
                        EXCEPT !.resource = resource, !.action = action,
                               !.this = instance, !.ret = result.value]
    /\ UNCHANGED <<rows, custom, req, guard>>
    /\ UNCHANGED part3Vars
    /\ UNCHANGED part4Vars

\* OrganizationUser.getRolePermissions(role)
GetRolePermissions(role) ==
    /\ last' = [Call("getRolePermissions", TRUE, 0)
                    EXCEPT !.role = role, !.ret = getRolePermissions(role)]
    /\ UNCHANGED <<rows, custom, req, guard>>
    /\ UNCHANGED part3Vars
    /\ UNCHANGED part4Vars

(***************************************************************************)
(* Spec: memberships of two users in two organizations, under create,      *)
(* destroy, role change and deactivation (roles owner and admin).          *)
(***************************************************************************)
OwnerRoles == {"owner", "admin"}

\* The (user, organization) pairs a membership is created for: two users in
\* o1, one of them also in o2.
Members == {<<"u1", "o1">>, <<"u2", "o1">>, <<"u1", "o2">>}

Next ==
    \/ \E m \in Members, r \in OwnerRoles :
          Create([userId |-> m[1], organizationId |-> m[2], role |-> Str(r),
                  permissions |-> Undefined])
    \/ \E id \in 1..MaxRows : Destroy(id)
    \/ \E id \in 1..MaxRows, r \in OwnerRoles : UpdateRole(id, r)
    \/ \E id \in 1..MaxRows : Deactivate(id)

Spec == Init /\ [][Next]_vars

(***************************************************************************)
(* SpecPermissions: one membership with every role, every kind of supplied *)
(* permission object, and the permission methods.                          *)
(***************************************************************************)
RoleInputs == {Undefined} \cup {Str(r) : r \in Roles}

\* Arguments of getRolePermissions that are not role values: an unknown name,
\* the empty string, and a name every object inherits.
UnknownRoles == {"intern", "", "constructor"}

NextPermissions ==
    \/ \E r \in RoleInputs, p \in PermissionInputs :
          Create([userId |-> "u1", organizationId |-> "o1", role |-> r,
                  permissions |-> p])
    \/ \E id \in 1..MaxRows, r \in Roles : UpdateRole(id, r)
    \/ \E id \in 1..MaxRows, c \in Cells : GrantPermission(id, c[1], c[2])
    \/ \E id \in 1..MaxRows, c \in Cells : RevokePermission(id, c[1], c[2])
    \/ \E id \in 1..MaxRows, c \in Cells, instance \in Instances :
          HasPermission(id, c[1], c[2], instance)
    \/ \E r \in Roles \cup UnknownRoles : GetRolePermissions(r)

SpecPermissions == Init /\ [][NextPermissions]_vars

(***************************************************************************)
(* Properties of the membership rows (checked under Spec).                 *)
(***************************************************************************)
ActiveOwners(table, o) ==
    {i \in DOMAIN table :
        /\ ~table[i].deleted
        /\ table[i].isActive
        /\ table[i].role = "owner"
        /\ table[i].organizationId = o}

\* C1: an organization that has an active owner membership still has one
\* after every membership operation (create, destroy, role change,
\* deactivation).
C1_ActiveOwnerRetained ==
    [][\A o \in OrganizationIds :
          ActiveOwners(rows, o) # {} => ActiveOwners(rows', o) # {}]_vars

\* C2: destroying an owner membership fails and leaves the row in place
\* exactly when the organization has no other active owner; every other
\* destroy succeeds and soft-deletes the row.
C2_DestroyBlockedIffLastOwner ==
    [][\A id \in DOMAIN rows :
          (last'.op = "destroy" /\ last'.id = id) =>
              LET blocked ==
                      /\ rows[id].role = "owner"
                      /\ ActiveOwners(rows, rows[id].organizationId) \ {id} = {}
              IN  IF blocked
                  THEN ~last'.ok /\ rows' = rows
                  ELSE last'.ok /\ rows' = [rows EXCEPT ![id].deleted = TRUE]]_vars

\* A destroy of an organization's only active owner has just been refused.
C2_Witness ==
    /\ last.op = "destroy"
    /\ ~last.ok
    /\ Live(last.id)
    /\ rows[last.id].role = "owner"
    /\ \E i \in DOMAIN rows : i # last.id /\ Live(i)

\* C3: the table never holds two rows, soft-deleted ones included, for the
\* same (userId, organizationId), so the lookup by (userId, organizationId,
\* isActive = true) has at most one candidate.
C3_OneRowPerUserAndOrganization ==
    \A i, j \in DOMAIN rows :
        (rows[i].userId = rows[j].userId
            /\ rows[i].organizationId = rows[j].organizationId) => i = j

\* A membership was soft-deleted and creating it again has just been refused.
C3_Witness ==
    /\ last.op = "create"
    /\ ~last.ok
    /\ Len(rows) > 0
    /\ \A i \in DOMAIN rows : rows[i].deleted

(***************************************************************************)
(* Properties of the permission objects (checked under SpecPermissions).   *)
(***************************************************************************)
\* The fifteen fixed (resource, action) keys.
FixedKeys ==
    [users |-> {"read", "write", "delete", "invite"},
     organizations |-> {"read", "write", "delete", "settings"},
     reports |-> {"read", "write", "export"},
     billing |-> {"read", "write"},
     api |-> {"read", "write"}]

FixedCells == UNION {{<<r, a>> : a \in FixedKeys[r]} : r \in DOMAIN FixedKeys}

\* The value of a cell of a permission object; undefined when it is absent.
Cell(permissions, resource, action) ==
    IF permissions.t = "object" /\ resource \in DOMAIN permissions.v
    THEN LET resourcePerms == permissions.v[resource]
         IN  IF resourcePerms.t = "object" /\ action \in DOMAIN resourcePerms.v
             THEN resourcePerms.v[action]
             ELSE Undefined
    ELSE Undefined

\* Every cell an object holds, under any resource.
CellsOf(permissions) ==
    UNION {{<<r, a>> : a \in DOMAIN permissions.v[r].v} : r \in DOMAIN permissions.v}

FullyPopulated(permissions) ==
    /\ permissions.t = "object"
    /\ DOMAIN permissions.v = DOMAIN FixedKeys
    /\ \A r \in DOMAIN FixedKeys :
          /\ permissions.v[r].t = "object"
          /\ DOMAIN permissions.v[r].v = FixedKeys[r]
          /\ \A a \in FixedKeys[r] : permissions.v[r].v[a].t = "boolean"

\* C4: every membership's permissions object holds exactly the fifteen fixed
\* keys, each with a boolean value.
C4_PermissionsFullyPopulated ==
    \A i \in DOMAIN rows : FullyPopulated(rows[i].permissions)

\* C5: a membership created without a permissions object stores the table of
\* its role, and its role is employee when none was given.
C5_CreatedWithRoleTable ==
    (last.op = "create" /\ last.ok /\ ~last.given) =>
        /\ rows[last.id].permissions = getRolePermissions(rows[last.id].role)
        /\ (last.role = "" => rows[last.id].role = "employee")

\* C6: after a role change the permissions object has exactly the keys of the
\* new role's table, and a cell is true iff the table or the prior object
\* held true for that key.
C6_RoleChangeMerge ==
    [][\A id \in DOMAIN rows :
          (last'.op = "updateRole" /\ last'.id = id /\ rows'[id].role # rows[id].role) =>
              LET table == getRolePermissions(rows'[id].role)
                  merged == rows'[id].permissions
                  prior == rows[id].permissions
              IN  /\ merged.t = "object"
                  /\ CellsOf(merged) = CellsOf(table)
                  /\ \A c \in CellsOf(table) :
                        (Cell(merged, c[1], c[2]) = True) <=>
                            (Cell(table, c[1], c[2]) = True \/ Cell(prior, c[1], c[2]) = True)]_vars

\* C7: after a role change a cell granted explicitly is true, and every other
\* fixed cell has the value of the new role's table (a cell that was true only
\* through an earlier role's table reverts).
C7_CustomGrantsPersistDefaultsRevert ==
    [][\A id \in DOMAIN rows :
          (last'.op = "updateRole" /\ last'.id = id /\ rows'[id].role # rows[id].role) =>
              \A c \in FixedCells :
                  LET value == Cell(rows'[id].permissions, c[1], c[2])
                      table == getRolePermissions(rows'[id].role)
                  IN  IF c \in custom[id]
                      THEN value = True
                      ELSE value = Cell(table, c[1], c[2])]_vars

\* C8: hasPermission never raises, and returns true exactly when the cell is
\* the boolean true (false for null or undefined permissions, a missing
\* resource, a missing action, a non-boolean cell).
C8_HasPermissionTotal ==
    last.op = "hasPermission" =>
        LET permissions == IF last.this = "row" THEN rows[last.id].permissions ELSE Null
            value == Cell(permissions, last.resource, last.action)
        IN  /\ last.ok
            /\ last.ret = IF value.t = "boolean" /\ value.v THEN True ELSE False

\* hasPermission has just answered for a cell holding a non-boolean value.
C8_Witness ==
    /\ last.op = "hasPermission"
    /\ last.this = "row"
    /\ Cell(rows[last.id].permissions, last.resource, last.action) = Str("yes")
    /\ last.ret = False

\* Every cell but (resource, action) has the same value in both objects.
SameElsewhere(before, after, resource, action) ==
    \A c \in (CellsOf(before) \cup CellsOf(after)) \ {<<resource, action>>} :
        Cell(after, c[1], c[2]) = Cell(before, c[1], c[2])

\* C9 as stated: grantPermission leaves the cell true, revokePermission leaves
\* it false, every other cell keeps its value, role and isActive are unchanged.
C9_OneCellFlipped ==
    [][\A id \in DOMAIN rows :
          (last'.op \in {"grantPermission", "revokePermission"} /\ last'.id = id) =>
              /\ Cell(rows'[id].permissions, last'.resource, last'.action) =
                    IF last'.op = "grantPermission" THEN True ELSE False
              /\ SameElsewhere(rows[id].permissions, rows'[id].permissions,
                               last'.resource, last'.action)
              /\ rows'[id].role = rows[id].role
              /\ rows'[id].isActive = rows[id].isActive]_vars

\* C9 as the code has it: revokePermission sets the cell false when the object
\* has the resource and returns the object unchanged when it has not.
C9_OneCellFlippedWhenResourcePresent ==
    [][\A id \in DOMAIN rows :
          (last'.op \in {"grantPermission", "revokePermission"} /\ last'.id = id) =>
              /\ IF last'.op = "grantPermission"
                 THEN Cell(rows'[id].permissions, last'.resource, last'.action) = True
                 ELSE IF last'.resource \in DOMAIN rows[id].permissions.v
                      THEN Cell(rows'[id].permissions, last'.resource, last'.action) = False
                      ELSE rows'[id].permissions = rows[id].permissions
              /\ SameElsewhere(rows[id].permissions, rows'[id].permissions,
                               last'.resource, last'.action)
              /\ rows'[id].role = rows[id].role
              /\ rows'[id].isActive = rows[id].isActive]_vars

\* A revoke has just set a cell that was absent, under a resource the object
\* has, to false.
C9_Witness ==
    /\ last.op = "revokePermission"
    /\ Live(last.id)
    /\ last.resource = "users"
    /\ last.action = "approve"
    /\ Cell(rows[last.id].permissions, "users", "approve") = False
    /\ Cell(rows[last.id].permissions, "users", "read") = True

\* C10: for each of the six roles getRolePermissions returns an object with
\* exactly the fifteen fixed keys, all boolean.
C10_RoleTableShape ==
    (last.op = "getRolePermissions" /\ last.role \in Roles) => FullyPopulated(last.ret)

\* getRolePermissions has just answered for the role viewer.
C10_Witness ==
    /\ last.op = "getRolePermissions"
    /\ last.role = "viewer"
    /\ last.ret = rolePermissions["viewer"]

\* C11: for every argument that is not one of the six roles getRolePermissions
\* returns, without failing, the guest table: fully shaped, with
\* organizations.read its only true cell.
C11_UnknownRoleGetsGuestTable ==
    (last.op = "getRolePermissions" /\ last.role \notin Roles) =>
        /\ last.ok
        /\ FullyPopulated(last.ret)
        /\ TrueCells(last.ret) = {<<"organizations", "read">>}

(***************************************************************************)
(* Part 2: the tenant middleware (src/middlewares/tenant.middleware.js).   *)
(*                                                                         *)
(* A request is handled by tenantMiddleware or optionalTenantMiddleware;   *)
(* each `await` of a store query is a step of its own.  The store is held  *)
(* still while a request and its lastAccessAt stamp are in flight.         *)
(***************************************************************************)
\* The organizations table: two active organizations and an inactive one.
organizations ==
    {[id |-> "o1", slug |-> "acme", isActive |-> TRUE],
     [id |-> "o2", slug |-> "beta", isActive |-> TRUE],
     [id |-> "o3", slug |-> "old", isActive |-> FALSE]}

\* req.user as the authenticate middleware leaves it: a User instance.
User(id, systemRole) == [t |-> "object", v |-> [id |-> id, systemRole |-> systemRole]]

\* User.prototype.isSuperAdmin
isSuperAdmin(user) == user.v.systemRole = "super_admin"

\* A Host header value, as its dot-separated labels with the dots between.
Host(tokens) == [t |-> "host", v |-> tokens]

\* host.split('.')
RECURSIVE split(_)
split(tokens) ==
    IF tokens = <<>> THEN <<"">>
    ELSE IF Head(tokens) = "." THEN <<"">> \o split(Tail(tokens))
    ELSE LET rest == split(Tail(tokens))
         IN  <<Head(tokens) \o Head(rest)>> \o Tail(rest)

\* extractSubdomain taking the first label of a two-label host as well.
extractSubdomain_TwoLabels(host) ==
    LET parts == split(host.v)
    IN  IF Len(parts) >= 2 THEN Str(parts[1]) ELSE Null

\* extractSubdomain(host)
extractSubdomain(host) ==
    LET parts == split(host.v)
    IN  IF Len(parts) >= 3 THEN Str(parts[1]) ELSE Null

\* extractTenantIdentifier reading the headers before the path parameters.
extractTenantIdentifier_HeaderFirst(r) ==
    LET headerTenant ==
            IF Truthy(Get(r.headers, "x-tenant-id"))
            THEN Get(r.headers, "x-tenant-id")
            ELSE Get(r.headers, "x-organization-slug")
    IN  IF Truthy(headerTenant) THEN headerTenant
        ELSE IF Truthy(Get(r.params, "tenantSlug")) THEN Get(r.params, "tenantSlug")
        ELSE IF Truthy(Get(r.params, "orgSlug")) THEN Get(r.params, "orgSlug")
        ELSE IF Truthy(r.host)
             THEN LET subdomain == extractSubdomain(r.host)
                  IN  IF /\ Truthy(subdomain)
                         /\ subdomain # Str("www")
                         /\ subdomain # Str("api")
                      THEN subdomain ELSE Null
             ELSE Null

\* extractTenantIdentifier(req)
extractTenantIdentifier(r) ==
    IF Truthy(Get(r.params, "tenantSlug")) THEN Get(r.params, "tenantSlug")
    ELSE IF Truthy(Get(r.params, "orgSlug")) THEN Get(r.params, "orgSlug")
    ELSE LET headerTenant ==
                IF Truthy(Get(r.headers, "x-tenant-id"))
                THEN Get(r.headers, "x-tenant-id")
                ELSE Get(r.headers, "x-organization-slug")
         IN  IF Truthy(headerTenant) THEN headerTenant
             ELSE IF Truthy(r.host)
                  THEN LET subdomain == extractSubdomain(r.host)
                       IN  IF /\ Truthy(subdomain)
                              /\ subdomain # Str("www")
                              /\ subdomain # Str("api")
                           THEN subdomain ELSE Null
                  ELSE Null

\* The query without its isActive condition.
findOrganization_AnyStatus(slug) ==
    LET found == {o \in organizations : slug = Str(o.slug)}
    IN  IF found = {} THEN Null ELSE Obj(CHOOSE o \in found : TRUE)

\* Organization.findOne({ where: { slug, isActive: true } })
findOrganization(slug) ==
    LET found == {o \in organizations : slug = Str(o.slug) /\ o.isActive}
    IN  IF found = {} THEN Null ELSE Obj(CHOOSE o \in found : TRUE)

\* The query without its isActive condition.
findMembership_AnyStatus(userId, organizationId) ==
    LET found == {i \in DOMAIN rows :
                    /\ ~rows[i].deleted
                    /\ rows[i].userId = userId
                    /\ rows[i].organizationId = organizationId}
    IN  IF found = {} THEN Null ELSE Obj(rows[CHOOSE i \in found : TRUE])

\* OrganizationUser.findOne({ where: { userId, organizationId, isActive: true } })
\* (a paranoid model's queries leave soft-deleted rows out).
findMembership(userId, organizationId) ==
    LET found == {i \in DOMAIN rows :
                    /\ ~rows[i].deleted
                    /\ rows[i].userId = userId
                    /\ rows[i].organizationId = organizationId
                    /\ rows[i].isActive}
    IN  IF found = {} THEN Null ELSE Obj(rows[CHOOSE i \in found : TRUE])

\* The ways a middleware run ends.
\* res.error(message, status, { code })
ResError(r, status, code) ==
    [r EXCEPT !.pc = "done", !.outcome = "res.error", !.status = status, !.code = code,
              !.calls = @ + 1]

\* next(error)
NextError(r, name) ==
    [r EXCEPT !.pc = "done", !.outcome = "next(error)", !.code = name, !.threw = TRUE,
              !.calls = @ + 1]

\* next()
NextCalled(r) == [r EXCEPT !.pc = "done", !.outcome = "next", !.calls = @ + 1]

\* A store query is issued and the run waits for it at pc.
Await(r, query, pc) == [r EXCEPT !.queries = Append(@, query), !.pc = pc]

\* What a request carries when it reaches the middleware.
NewRequest(mw, user, signals) ==
    [NoRequest EXCEPT !.mw = mw, !.pc = "called", !.user = user,
                      !.params = signals.params, !.headers = signals.headers,
                      !.host = signals.host]

(***************************************************************************)
(* tenantMiddleware                                                        *)
(***************************************************************************)
\* tenantMiddleware looking for the tenant slug before the identity.
tenantMiddleware_SlugFirst(r) ==
    LET tenantSlug == extractTenantIdentifier(r)
    IN  IF ~Truthy(tenantSlug) THEN ResError(r, 400, "TENANT_REQUIRED")
        ELSE IF ~Truthy(r.user) THEN NextError(r, "AuthenticationError")
        ELSE Await([r EXCEPT !.tenantSlugFound = tenantSlug],
                   "Organization.findOne", "organization")

\* tenantMiddleware up to its first await: the identity check, the tenant
\* slug, and the organization query.
tenantMiddleware(r) ==
    IF ~Truthy(r.user) THEN NextError(r, "AuthenticationError")
    ELSE LET tenantSlug == extractTenantIdentifier(r)
         IN  IF ~Truthy(tenantSlug) THEN ResError(r, 400, "TENANT_REQUIRED")
             ELSE Await([r EXCEPT !.tenantSlugFound = tenantSlug],
                        "Organization.findOne", "organization")

\* The assignments that add the tenant context to the request.
tenantContext(r, membership) ==
    [r EXCEPT !.tenant = r.organization,
              !.tenantId = Str(r.organization.v.id),
              !.tenantSlug = Str(r.organization.v.slug),
              !.orgMembership = membership,
              !.orgRole = IF Truthy(membership) THEN Str(membership.v.role) ELSE Null,
              !.orgPermissions = IF Truthy(membership)
                                 THEN membership.v.permissions ELSE EmptyObject]

\* A request reaches tenantMiddleware.
TenantMiddleware(user, signals) ==
    /\ req.pc = "idle"
    /\ req' = tenantMiddleware(NewRequest("tenantMiddleware", user, signals))
    /\ guard' = NoGuard
    /\ UNCHANGED <<rows, custom, last>>
    /\ UNCHANGED part3Vars
    /\ UNCHANGED part4Vars

\* The step with checkUserAccess looking the membership up for every caller,
\* super admins included.
TenantOrganization_NoBypass ==
    /\ req.mw = "tenantMiddleware" /\ req.pc = "organization"
    /\ LET organization == findOrganization(req.tenantSlugFound)
           r == [req EXCEPT !.organization = organization]
       IN  req' = IF ~Truthy(organization)
                  THEN ResError(req, 404, "ORGANIZATION_NOT_FOUND")
                  ELSE Await(r, "OrganizationUser.findOne", "checkUserAccess")
    /\ UNCHANGED <<rows, custom, last, guard>>
    /\ UNCHANGED part3Vars
    /\ UNCHANGED part4Vars

\* Organization.findOne has answered; checkUserAccess starts: a super admin
\* has access without a query, for anyone else the membership is looked up.
TenantOrganization ==
    /\ req.mw = "tenantMiddleware" /\ req.pc = "organization"
    /\ LET organization == findOrganization(req.tenantSlugFound)
           r == [req EXCEPT !.organization = organization]
       IN  req' = IF ~Truthy(organization)
                  THEN ResError(req, 404, "ORGANIZATION_NOT_FOUND")
                  ELSE IF isSuperAdmin(req.user)
                  THEN Await(r, "OrganizationUser.findOne", "membership")
                  ELSE Await(r, "OrganizationUser.findOne", "checkUserAccess")
    /\ UNCHANGED <<rows, custom, last, guard>>
    /\ UNCHANGED part3Vars
    /\ UNCHANGED part4Vars

\* The step attaching the tenant context before access is decided.
TenantCheckUserAccess_ContextFirst ==
    /\ req.mw = "tenantMiddleware" /\ req.pc = "checkUserAccess"
    /\ LET membership == findMembership(req.user.v.id, req.organization.v.id)
           hasAccess == Truthy(membership)
           r == tenantContext(req, membership)
       IN  req' = IF ~hasAccess
                  THEN ResError(r, 403, "ORGANIZATION_ACCESS_DENIED")
                  ELSE Await(r, "OrganizationUser.findOne", "membership")
    /\ UNCHANGED <<rows, custom, last, guard>>
    /\ UNCHANGED part3Vars
    /\ UNCHANGED part4Vars

\* The query of checkUserAccess has answered.
TenantCheckUserAccess ==
    /\ req.mw = "tenantMiddleware" /\ req.pc = "checkUserAccess"
    /\ LET membership == findMembership(req.user.v.id, req.organization.v.id)
           hasAccess == Truthy(membership)
       IN  req' = IF ~hasAccess
                  THEN ResError(req, 403, "ORGANIZATION_ACCESS_DENIED")
                  ELSE Await(req, "OrganizationUser.findOne", "membership")
    /\ UNCHANGED <<rows, custom, last, guard>>
    /\ UNCHANGED part3Vars
    /\ UNCHANGED part4Vars

\* The membership query has answered: the context is attached, the stamp is
\* started without being awaited, and next() is called.
TenantMembership ==
    /\ req.mw = "tenantMiddleware" /\ req.pc = "membership"
    /\ LET membership == findMembership(req.user.v.id, req.organization.v.id)
           r == tenantContext(req, membership)
       IN  req' = NextCalled([r EXCEPT !.stamp = IF Truthy(membership)
                                                 THEN "pending" ELSE "none"])
    /\ UNCHANGED <<rows, custom, last, guard>>
    /\ UNCHANGED part3Vars
    /\ UNCHANGED part4Vars

\* A store query of tenantMiddleware rejects: the catch block passes the
\* error on.
TenantQueryFails ==
    /\ req.mw = "tenantMiddleware"
    /\ req.pc \in {"organization", "checkUserAccess", "membership"}
    /\ req' = NextError(req, "DatabaseError")
    /\ UNCHANGED <<rows, custom, last, guard>>
    /\ UNCHANGED part3Vars
    /\ UNCHANGED part4Vars

\* membership.updateLastAccess() resolves: this.update({ lastAccessAt }).
UpdateLastAccess ==
    /\ req.stamp = "pending"
    /\ LET id == req.orgMembership.v.id
       IN  rows' = [rows EXCEPT ![id] =
                        beforeUpdate([rows[id] EXCEPT !.lastAccessAt = Str("now")], rows[id])]
    /\ req' = [req EXCEPT !.stamp = "resolved"]
    /\ UNCHANGED <<custom, last, guard>>
    /\ UNCHANGED part3Vars
    /\ UNCHANGED part4Vars

\* The rejection reaching the catch block of the middleware.
UpdateLastAccessFails_Surfaces ==
    /\ req.stamp = "pending"
    /\ req' = NextError([req EXCEPT !.stamp = "rejected"], "DatabaseError")
    /\ UNCHANGED <<rows, custom, last, guard>>
    /\ UNCHANGED part3Vars
    /\ UNCHANGED part4Vars

\* membership.updateLastAccess() rejects: the .catch handler logs a warning.
UpdateLastAccessFails ==
    /\ req.stamp = "pending"
    /\ req' = [req EXCEPT !.stamp = "rejected"]
    /\ UNCHANGED <<rows, custom, last, guard>>
    /\ UNCHANGED part3Vars
    /\ UNCHANGED part4Vars

(***************************************************************************)
(* optionalTenantMiddleware                                                *)
(***************************************************************************)
\* optionalTenantMiddleware passing a missing identity on as an error.
optionalTenantMiddleware_RequiresIdentity(r) ==
    IF ~Truthy(r.user) THEN NextError(r, "AuthenticationError")
    ELSE LET tenantSlug == extractTenantIdentifier(r)
         IN  IF ~Truthy(tenantSlug) THEN NextCalled(r)
             ELSE Await([r EXCEPT !.tenantSlugFound = tenantSlug],
                        "Organization.findOne", "organization")

\* optionalTenantMiddleware up to its first await.
optionalTenantMiddleware(r) ==
    IF ~Truthy(r.user) THEN NextCalled(r)
    ELSE LET tenantSlug == extractTenantIdentifier(r)
         IN  IF ~Truthy(tenantSlug) THEN NextCalled(r)
             ELSE Await([r EXCEPT !.tenantSlugFound = tenantSlug],
                        "Organization.findOne", "organization")

\* The assignments leaving the role out.
optionalTenantContext_WithoutRole(r, membership) ==
    [r EXCEPT !.tenant = r.organization,
              !.tenantId = Str(r.organization.v.id),
              !.tenantSlug = Str(r.organization.v.slug),
              !.orgMembership = membership,
              !.orgRole = Null,
              !.orgPermissions = IF Truthy(membership)
                                 THEN membership.v.permissions ELSE EmptyObject]

\* The assignments of optionalTenantMiddleware that add the tenant context.
optionalTenantContext(r, membership) ==
    [r EXCEPT !.tenant = r.organization,
              !.tenantId = Str(r.organization.v.id),
              !.tenantSlug = Str(r.organization.v.slug),
              !.orgMembership = membership,
              !.orgRole = IF Truthy(membership) THEN Str(membership.v.role) ELSE Null,
              !.orgPermissions = IF Truthy(membership)
                                 THEN membership.v.permissions ELSE EmptyObject]

\* A request reaches optionalTenantMiddleware.
OptionalTenantMiddleware(user, signals) ==
    /\ req.pc = "idle"
    /\ req' = optionalTenantMiddleware(NewRequest("optionalTenantMiddleware", user, signals))
    /\ guard' = NoGuard
    /\ UNCHANGED <<rows, custom, last>>
    /\ UNCHANGED part3Vars
    /\ UNCHANGED part4Vars

OptionalOrganization ==
    /\ req.mw = "optionalTenantMiddleware" /\ req.pc = "organization"
    /\ LET organization == findOrganization(req.tenantSlugFound)
           r == [req EXCEPT !.organization = organization]
       IN  req' = IF ~Truthy(organization) THEN NextCalled(req)
                  ELSE IF isSuperAdmin(req.user)
                  THEN Await(r, "OrganizationUser.findOne", "membership")
                  ELSE Await(r, "OrganizationUser.findOne", "checkUserAccess")
    /\ UNCHANGED <<rows, custom, last, guard>>
    /\ UNCHANGED part3Vars
    /\ UNCHANGED part4Vars

OptionalCheckUserAccess ==
    /\ req.mw = "optionalTenantMiddleware" /\ req.pc = "checkUserAccess"
    /\ LET membership == findMembership(req.user.v.id, req.organization.v.id)
           hasAccess == Truthy(membership)
       IN  req' = IF ~hasAccess THEN NextCalled(req)
                  ELSE Await(req, "OrganizationUser.findOne", "membership")
    /\ UNCHANGED <<rows, custom, last, guard>>
    /\ UNCHANGED part3Vars
    /\ UNCHANGED part4Vars

OptionalMembership ==
    /\ req.mw = "optionalTenantMiddleware" /\ req.pc = "membership"
    /\ LET membership == findMembership(req.user.v.id, req.organization.v.id)
       IN  req' = NextCalled(optionalTenantContext(req, membership))
    /\ UNCHANGED <<rows, custom, last, guard>>
    /\ UNCHANGED part3Vars
    /\ UNCHANGED part4Vars

\* A store query of optionalTenantMiddleware rejects: the catch block logs a
\* warning and calls next().
OptionalQueryFails ==
    /\ req.mw = "optionalTenantMiddleware"
    /\ req.pc \in {"organization", "checkUserAccess", "membership"}
    /\ req' = NextCalled([req EXCEPT !.threw = TRUE])
    /\ UNCHANGED <<rows, custom, last, guard>>
    /\ UNCHANGED part3Vars
    /\ UNCHANGED part4Vars

\* The six context fields of a request.
Context(r) ==
    [tenant |-> r.tenant, tenantId |-> r.tenantId, tenantSlug |-> r.tenantSlug,
     orgMembership |-> r.orgMembership, orgRole |-> r.orgRole,
     orgPermissions |-> r.orgPermissions]

\* The request optionalTenantMiddleware has just handled is presented, as it
\* arrived, to tenantMiddleware against the same store; what the optional
\* run attached is kept in prior.
TenantMiddlewareOnSameRequest ==
    /\ req.mw = "optionalTenantMiddleware" /\ req.pc = "done"
    /\ LET arrived == NewRequest("tenantMiddleware", req.user,
                                 [params |-> req.params, headers |-> req.headers,
                                  host |-> req.host])
           prior == Obj([context |-> Context(req), threw |-> req.threw])
       IN  req' = tenantMiddleware([arrived EXCEPT !.prior = prior])
    /\ guard' = NoGuard
    /\ UNCHANGED <<rows, custom, last>>
    /\ UNCHANGED part3Vars
    /\ UNCHANGED part4Vars

\* The response is sent and the request is over.
Finish ==
    /\ req.pc = "done"
    /\ req.stamp # "pending"
    /\ req' = NoRequest
    /\ guard' = NoGuard
    /\ UNCHANGED <<rows, custom, last>>
    /\ UNCHANGED part3Vars
    /\ UNCHANGED part4Vars

(***************************************************************************)
(* The access guards.                                                      *)
(***************************************************************************)
Arr(elements) == [t |-> "array", v |-> elements]

\* The role guard passing every role ranked at least as high as a listed one.
requireOrgRole_Ranked(allowedRoles, r) ==
    LET roles == IF allowedRoles.t = "array" THEN allowedRoles.v ELSE <<allowedRoles>>
        g == [NoGuard EXCEPT !.name = "requireOrgRole", !.allowedRoles = roles]
        rank == [owner |-> 6, admin |-> 5, manager |-> 4, employee |-> 3,
                 viewer |-> 2, guest |-> 1]
    IN  IF ~Truthy(r.tenant) \/ ~Truthy(r.user)
        THEN [g EXCEPT !.outcome = "res.error", !.status = 401,
                       !.code = "TENANT_CONTEXT_REQUIRED"]
        ELSE IF isSuperAdmin(r.user) THEN [g EXCEPT !.outcome = "next"]
        ELSE IF ~Truthy(r.orgRole)
                  \/ ~(\E i \in DOMAIN roles : rank[roles[i].v] <= rank[r.orgRole.v])
        THEN [g EXCEPT !.outcome = "res.error", !.status = 403,
                       !.code = "INSUFFICIENT_ORG_PERMISSIONS"]
        ELSE [g EXCEPT !.outcome = "next"]

\* requireOrgRole applying the super-admin bypass before it looks for the
\* tenant context.
requireOrgRole_BypassFirst(allowedRoles, r) ==
    LET roles == IF allowedRoles.t = "array" THEN allowedRoles.v ELSE <<allowedRoles>>
        g == [NoGuard EXCEPT !.name = "requireOrgRole", !.allowedRoles = roles]
    IN  IF Truthy(r.user) /\ isSuperAdmin(r.user) THEN [g EXCEPT !.outcome = "next"]
        ELSE IF ~Truthy(r.tenant) \/ ~Truthy(r.user)
        THEN [g EXCEPT !.outcome = "res.error", !.status = 401,
                       !.code = "TENANT_CONTEXT_REQUIRED"]
        ELSE IF ~Truthy(r.orgRole) \/ ~(\E i \in DOMAIN roles : roles[i] = r.orgRole)
        THEN [g EXCEPT !.outcome = "res.error", !.status = 403,
                       !.code = "INSUFFICIENT_ORG_PERMISSIONS"]
        ELSE [g EXCEPT !.outcome = "next"]

\* The handler requireOrgRole(allowedRoles) returns, applied to a request.
requireOrgRole(allowedRoles, r) ==
    LET roles == IF allowedRoles.t = "array" THEN allowedRoles.v ELSE <<allowedRoles>>
        g == [NoGuard EXCEPT !.name = "requireOrgRole", !.allowedRoles = roles]
    IN  IF ~Truthy(r.tenant) \/ ~Truthy(r.user)
        THEN [g EXCEPT !.outcome = "res.error", !.status = 401,
                       !.code = "TENANT_CONTEXT_REQUIRED"]
        ELSE IF isSuperAdmin(r.user) THEN [g EXCEPT !.outcome = "next"]
        ELSE IF ~Truthy(r.orgRole) \/ ~(\E i \in DOMAIN roles : roles[i] = r.orgRole)
        THEN [g EXCEPT !.outcome = "res.error", !.status = 403,
                       !.code = "INSUFFICIENT_ORG_PERMISSIONS"]
        ELSE [g EXCEPT !.outcome = "next"]

\* The handler requireOrgPermission(resource, action) returns, applied to a
\* request.
requireOrgPermission(resource, action, r) ==
    LET g == [NoGuard EXCEPT !.name = "requireOrgPermission",
                             !.resource = resource, !.action = action]
    IN  IF ~Truthy(r.tenant) \/ ~Truthy(r.user) \/ ~Truthy(r.orgMembership)
        THEN [g EXCEPT !.outcome = "res.error", !.status = 401,
                       !.code = "TENANT_CONTEXT_REQUIRED"]
        ELSE IF isSuperAdmin(r.user) THEN [g EXCEPT !.outcome = "next"]
        ELSE LET granted == hasPermission(r.orgMembership.v, resource, action)
             IN  IF granted.threw
                 THEN [g EXCEPT !.outcome = "next(error)", !.code = "TypeError"]
                 ELSE IF ~Truthy(granted.value)
                 THEN [g EXCEPT !.outcome = "res.error", !.status = 403,
                                !.code = "INSUFFICIENT_ORG_PERMISSIONS"]
                 ELSE [g EXCEPT !.outcome = "next"]

\* Express runs a route's next handler only after next() was called without
\* an error.
RequireOrgRole(allowedRoles) ==
    /\ req.pc = "done" /\ req.outcome = "next"
    /\ guard' = requireOrgRole(allowedRoles, req)
    /\ UNCHANGED <<rows, custom, last, req>>
    /\ UNCHANGED part3Vars
    /\ UNCHANGED part4Vars

RequireOrgPermission(resource, action) ==
    /\ req.pc = "done" /\ req.outcome = "next"
    /\ guard' = requireOrgPermission(resource, action, req)
    /\ UNCHANGED <<rows, custom, last, req>>
    /\ UNCHANGED part3Vars
    /\ UNCHANGED part4Vars

(***************************************************************************)
(* SpecTenant: requests of three callers against the memberships of two    *)
(* users in one organization; memberships are created, deactivated and     *)
(* removed between requests.                                               *)
(***************************************************************************)
\* req.user: nobody, a plain user, a system admin, and a super admin.
UserInputs ==
    {Undefined, User("u1", "user"), User("u1", "system_admin"), User("u2", "super_admin")}

\* The tenant signals of a request: none; a path parameter and a header; a
\* header and a host; a host naming the inactive organization; a path
\* parameter naming no organization.
SignalInputs ==
    {[params |-> EmptyObject, headers |-> EmptyObject, host |-> Host(<<"localhost">>)],
     [params |-> Obj([tenantSlug |-> Str("acme")]),
      headers |-> Obj("x-tenant-id" :> Str("beta")),
      host |-> Undefined],
     [params |-> EmptyObject,
      headers |-> Obj("x-organization-slug" :> Str("beta")),
      host |-> Host(<<"acme", ".", "example", ".", "com">>)],
     [params |-> EmptyObject, headers |-> EmptyObject,
      host |-> Host(<<"old", ".", "example", ".", "com">>)],
     [params |-> Obj([orgSlug |-> Str("ghost")]), headers |-> EmptyObject,
      host |-> Host(<<"www", ".", "example", ".", "com">>)]}

TenantMembers == {<<"u1", "o1">>, <<"u2", "o1">>}

TenantRoles == {"manager", "admin"}

AllowedRolesInputs ==
    {Arr(<<Str("manager")>>), Arr(<<Str("owner"), Str("admin")>>), Str("admin")}

GuardCells == {<<"billing", "read">>, <<"reports", "export">>}

NextTenant ==
    \/ /\ req.pc = "idle"
       /\ \E m \in TenantMembers, r \in TenantRoles :
             Create([userId |-> m[1], organizationId |-> m[2], role |-> Str(r),
                     permissions |-> EmptyObject])
    \/ /\ req.pc = "idle"
       /\ \E id \in 1..MaxRows : Deactivate(id)
    \/ /\ req.pc = "idle"
       /\ \E id \in 1..MaxRows : Destroy(id)
    \/ \E user \in UserInputs, signals \in SignalInputs : TenantMiddleware(user, signals)
    \/ TenantOrganization
    \/ TenantCheckUserAccess
    \/ TenantMembership
    \/ TenantQueryFails
    \/ UpdateLastAccess
    \/ UpdateLastAccessFails
    \/ \E user \in UserInputs, signals \in SignalInputs :
          OptionalTenantMiddleware(user, signals)
    \/ OptionalOrganization
    \/ OptionalCheckUserAccess
    \/ OptionalMembership
    \/ OptionalQueryFails
    \/ TenantMiddlewareOnSameRequest
    \/ \E allowedRoles \in AllowedRolesInputs : RequireOrgRole(allowedRoles)
    \/ \E c \in GuardCells : RequireOrgPermission(c[1], c[2])
    \/ Finish

SpecTenant == Init /\ [][NextTenant]_vars

(***************************************************************************)
(* Properties of the tenant middleware (checked under SpecTenant).         *)
(***************************************************************************)
\* The active organization a slug names, or Null.
ActiveOrganization(slug) ==
    IF \E o \in organizations : Str(o.slug) = slug /\ o.isActive
    THEN Obj(CHOOSE o \in organizations : Str(o.slug) = slug /\ o.isActive)
    ELSE Null

\* The rows that are live, active memberships of a user in an organization.
ActiveMemberships(userId, organizationId) ==
    {i \in DOMAIN rows :
        /\ ~rows[i].deleted /\ rows[i].isActive
        /\ rows[i].userId = userId /\ rows[i].organizationId = organizationId}

\* No context field has been set on the request.
NoContext(r) ==
    /\ r.tenant = Undefined /\ r.tenantId = Undefined /\ r.tenantSlug = Undefined
    /\ r.orgMembership = Undefined /\ r.orgRole = Undefined
    /\ r.orgPermissions = Undefined

\* A run of the given middleware has ended without a store error, for a
\* caller with an identity and a slug that names an active organization.
Resolved(mw) ==
    /\ req.mw = mw /\ req.pc = "done" /\ ~req.threw
    /\ Truthy(req.user)
    /\ Truthy(ActiveOrganization(extractTenantIdentifier(req)))

\* The request has been authorized for the organization its slug names.
AuthorizedForOrganization ==
    /\ req.outcome = "next"
    /\ req.tenant = ActiveOrganization(extractTenantIdentifier(req))
    /\ req.tenantId = Str(req.tenant.v.id)
    /\ req.tenantSlug = Str(req.tenant.v.slug)

\* C12 as stated: a super admin naming an active organization is always
\* authorized, and the context never carries a membership (orgMembership and
\* orgRole are null).
C12_SuperAdminContextWithoutMembership ==
    (Resolved("tenantMiddleware") /\ isSuperAdmin(req.user)) =>
        /\ AuthorizedForOrganization
        /\ req.orgMembership = Null
        /\ req.orgRole = Null

\* C12: a super admin naming an active organization is always authorized,
\* with or without a membership row; the context carries the super admin's
\* own active membership in that organization and its role when there is
\* one, and null for both when there is none.
C12_SuperAdminAuthorizedWithOwnMembership ==
    (Resolved("tenantMiddleware") /\ isSuperAdmin(req.user)) =>
        /\ AuthorizedForOrganization
        /\ LET own == ActiveMemberships(req.user.v.id, req.tenant.v.id)
           IN  IF own = {}
               THEN req.orgMembership = Null /\ req.orgRole = Null
               ELSE /\ Truthy(req.orgMembership)
                    /\ req.orgMembership.v.id \in own
                    /\ req.orgRole = Str(rows[req.orgMembership.v.id].role)

\* A super admin without a membership row has been authorized.
C12_Witness ==
    /\ Resolved("tenantMiddleware") /\ isSuperAdmin(req.user)
    /\ req.outcome = "next"
    /\ req.orgMembership = Null
    /\ \A i \in DOMAIN rows : rows[i].userId # req.user.v.id

\* A run of tenantMiddleware has been refused with a response.
Refused(status, code) ==
    /\ req.outcome = "res.error" /\ req.status = status /\ req.code = code
    /\ NoContext(req)

\* C13: a caller who is not a super admin and has no active membership in
\* the organization the slug names is refused with 403
\* ORGANIZATION_ACCESS_DENIED and no tenant context, and that outcome is the
\* same whether the membership row is inactive or there is no row at all.
C13_InactiveMembershipDeniedLikeNone ==
    (/\ Resolved("tenantMiddleware")
     /\ ~isSuperAdmin(req.user)
     /\ ActiveMemberships(req.user.v.id,
                          ActiveOrganization(extractTenantIdentifier(req)).v.id) = {}) =>
        /\ Refused(403, "ORGANIZATION_ACCESS_DENIED")
        /\ req.stamp = "none"

\* A caller whose membership row in the organization is inactive has been
\* refused.
C13_Witness ==
    /\ Resolved("tenantMiddleware")
    /\ ~isSuperAdmin(req.user)
    /\ req.status = 403
    /\ \E i \in DOMAIN rows :
          /\ ~rows[i].deleted /\ ~rows[i].isActive
          /\ rows[i].userId = req.user.v.id
          /\ rows[i].organizationId = ActiveOrganization(extractTenantIdentifier(req)).v.id

\* C14: for every authenticated caller, a super admin included, a slug that
\* names no organization or only an inactive one is refused with 404
\* ORGANIZATION_NOT_FOUND and no tenant context, the same in both cases.
C14_MissingOrInactiveOrganizationNotFound ==
    (/\ req.mw = "tenantMiddleware" /\ req.pc = "done" /\ ~req.threw
     /\ Truthy(req.user)
     /\ Truthy(extractTenantIdentifier(req))
     /\ ~Truthy(ActiveOrganization(extractTenantIdentifier(req)))) =>
        Refused(404, "ORGANIZATION_NOT_FOUND")

\* A super admin naming the inactive organization has been refused.
C14_Witness ==
    /\ req.mw = "tenantMiddleware" /\ req.pc = "done"
    /\ Truthy(req.user) /\ isSuperAdmin(req.user)
    /\ extractTenantIdentifier(req) = Str("old")
    /\ req.status = 404

\* The store queries of a complete run, in order.
QueryOrder == <<"Organization.findOne", "OrganizationUser.findOne", "OrganizationUser.findOne">>

\* C15: tenantMiddleware checks identity, tenant slug, organization and
\* membership in that order and ends with the reason of the first check that
\* fails; a run refused at the identity or the slug check has issued no
\* store query, and a membership query is issued only after the organization
\* query has returned an active organization.
C15_ChecksInFixedOrder ==
    req.mw = "tenantMiddleware" =>
        /\ Len(req.queries) <= 3
        /\ req.queries = SubSeq(QueryOrder, 1, Len(req.queries))
        /\ Len(req.queries) >= 2 =>
              /\ Truthy(req.organization)
              /\ req.organization = ActiveOrganization(extractTenantIdentifier(req))
        /\ (req.pc = "done" /\ ~Truthy(req.user)) =>
              /\ req.outcome = "next(error)" /\ req.code = "AuthenticationError"
              /\ req.queries = <<>>
        /\ (req.pc = "done" /\ Truthy(req.user)
                /\ ~Truthy(extractTenantIdentifier(req))) =>
              /\ Refused(400, "TENANT_REQUIRED")
              /\ req.queries = <<>>
        /\ (req.pc = "done" /\ ~req.threw /\ Truthy(req.user)
                /\ Truthy(extractTenantIdentifier(req))
                /\ ~Truthy(ActiveOrganization(extractTenantIdentifier(req)))) =>
              /\ Refused(404, "ORGANIZATION_NOT_FOUND")
              /\ req.queries = <<"Organization.findOne">>
        /\ (req.pc = "done" /\ req.status = 403) =>
              req.queries = <<"Organization.findOne", "OrganizationUser.findOne">>

\* A request with neither an identity nor a tenant slug has ended with the
\* identity failure.
C15_Witness ==
    /\ req.mw = "tenantMiddleware" /\ req.pc = "done"
    /\ ~Truthy(req.user)
    /\ ~Truthy(extractTenantIdentifier(req))
    /\ req.code = "AuthenticationError"

\* C16: the lastAccessAt stamp is started exactly for an authorized request
\* with a membership and is pending when next() is called; while the stamp
\* is pending, and when it resolves or rejects, the request stays
\* authorized with the same context, and a refused request has no stamp.
C16_StampNeverBlocksOrFails ==
    [][/\ req'.stamp # "none" =>
            /\ req'.mw = "tenantMiddleware" /\ req'.pc = "done"
            /\ req'.outcome = "next"
            /\ Truthy(req'.orgMembership)
       /\ (req'.mw = "tenantMiddleware" /\ req'.outcome = "next"
                /\ Truthy(req'.orgMembership)) =>
            req'.stamp # "none"
       /\ (req.outcome # "next" /\ req'.mw = "tenantMiddleware"
                /\ req'.outcome = "next" /\ Truthy(req'.orgMembership)) =>
            req'.stamp = "pending"
       /\ req.stamp = "pending" =>
            /\ req'.outcome = "next" /\ req'.pc = "done" /\ ~req'.threw
            /\ Context(req') = Context(req)]_vars

\* The stamp of an authorized request has been rejected.
C16_Witness ==
    /\ req.mw = "tenantMiddleware" /\ req.outcome = "next"
    /\ req.stamp = "rejected"

\* The context fields of a request nothing was attached to.
EmptyContext == Context(NoRequest)

\* C17: optionalTenantMiddleware ends every authenticated request with
\* next() and no error; without a tenant slug, an active organization or
\* access to it, or after a store error, the request has no tenant context;
\* and for the same request against the same store it attaches a context
\* exactly when tenantMiddleware authorizes, with the same organization,
\* membership, role and permissions.
C17_OptionalNeverDeniesAndAgrees ==
    /\ (req.mw = "optionalTenantMiddleware" /\ req.pc = "done" /\ Truthy(req.user)) =>
          /\ req.outcome = "next" /\ req.status = 0 /\ req.code = ""
          /\ LET tenantSlug == extractTenantIdentifier(req)
                 organization == ActiveOrganization(tenantSlug)
             IN  (\/ req.threw
                  \/ ~Truthy(tenantSlug)
                  \/ ~Truthy(organization)
                  \/ (/\ ~isSuperAdmin(req.user)
                      /\ ActiveMemberships(req.user.v.id, organization.v.id) = {})) =>
                     NoContext(req)
    /\ (/\ req.mw = "tenantMiddleware" /\ req.pc = "done" /\ Truthy(req.user)
        /\ req.prior # Undefined
        /\ ~req.threw /\ ~req.prior.v.threw) =>
          /\ req.outcome = "next" <=> req.prior.v.context # EmptyContext
          /\ req.outcome = "next" => Context(req) = req.prior.v.context
          /\ req.outcome # "next" => NoContext(req)

\* Both middlewares have handled the same request of a member, and both
\* attached the membership.
C17_Witness ==
    /\ req.mw = "tenantMiddleware" /\ req.pc = "done"
    /\ req.prior # Undefined
    /\ req.outcome = "next"
    /\ Truthy(req.orgMembership)
    /\ req.prior.v.context.orgMembership = req.orgMembership

\* C18 as stated: in the optional variant a request without a verified
\* identity is denied; the identity failure reaches the caller.
C18_OptionalDeniesWithoutIdentity ==
    (req.mw = "optionalTenantMiddleware" /\ req.pc = "done" /\ ~Truthy(req.user)) =>
        req.outcome \in {"next(error)", "res.error"}

\* C18: in the optional variant a request without a verified identity is
\* not denied: it continues with next() and no error, without tenant
\* context and without a store query.
C18_OptionalContinuesWithoutIdentity ==
    (req.mw = "optionalTenantMiddleware" /\ req.pc = "done" /\ ~Truthy(req.user)) =>
        /\ req.outcome = "next" /\ req.status = 0 /\ req.code = "" /\ ~req.threw
        /\ NoContext(req)
        /\ req.queries = <<>>

\* optionalTenantMiddleware has handled a request that has no identity but
\* names an active organization.
C18_Witness ==
    /\ req.mw = "optionalTenantMiddleware" /\ req.pc = "done"
    /\ ~Truthy(req.user)
    /\ Truthy(ActiveOrganization(extractTenantIdentifier(req)))

\* The roles a role guard was built with.
AllowedRoles == {guard.allowedRoles[i].v : i \in DOMAIN guard.allowedRoles}

C20_PermissionGuardBypassOrCell ==
    (guard.name = "requireOrgPermission" /\ Truthy(req.tenant)) =>
        LET granted == /\ Truthy(req.orgMembership)
                       /\ <<guard.resource, guard.action>>
                             \in TrueCells(req.orgMembership.v.permissions)
        IN  guard.outcome = "next" <=> (isSuperAdmin(req.user) \/ granted)

(***************************************************************************)
(* Part 3: the user service, the tenant identifier and the organization    *)
(* hierarchy.                                                              *)
(***************************************************************************)
(***************************************************************************)
(* UserService.getUserOrganizations (src/services/user.service.js).        *)
(***************************************************************************)
SystemRoles == {"super_admin", "system_admin", "user"}

\* The users table: three users, each with one of the system roles.
UserTables ==
    {<<User("u1", r1) , User("u2", r2), User("u3", r3)>> :
        r1 \in SystemRoles, r2 \in SystemRoles, r3 \in SystemRoles}

\* The firebaseUid column: user ui has uid fi.
firebaseUid(user) ==
    IF user.v.id = "u1" THEN "f1" ELSE IF user.v.id = "u2" THEN "f2" ELSE "f3"

\* User.findOne({ where: { firebaseUid } })
findUser(uid) ==
    LET found == {i \in DOMAIN users : firebaseUid(users[i]) = uid}
    IN  IF found = {} THEN Null ELSE users[CHOOSE i \in found : TRUE]

\* OrganizationUser.findAndCountAll with the default options: the user's
\* active memberships joined with their active organization.
findMembershipsWithOrganizations(userId) ==
    {i \in DOMAIN rows :
        /\ ~rows[i].deleted
        /\ rows[i].userId = userId
        /\ rows[i].isActive
        /\ \E o \in organizations : o.id = rows[i].organizationId /\ o.isActive}

\* The outcome of a service call.
Thrown(op, target, requester, error) ==
    [op |-> op, ok |-> FALSE, target |-> target, requester |-> requester,
     error |-> error, ret |-> Undefined]

Returned(op, target, requester, ret) ==
    [op |-> op, ok |-> TRUE, target |-> target, requester |-> requester,
     error |-> "", ret |-> ret]

\* getUserOrganizations letting every system admin see any user's list.
getUserOrganizations_AnySystemAdmin(userFirebaseUid, requesterFirebaseUid) ==
    LET op == "getUserOrganizations"
        targetUser == findUser(userFirebaseUid)
        requester == findUser(requesterFirebaseUid)
    IN  IF ~Truthy(targetUser)
        THEN Thrown(op, userFirebaseUid, requesterFirebaseUid, "AuthenticationError")
        ELSE IF ~Truthy(requester)
        THEN Thrown(op, userFirebaseUid, requesterFirebaseUid, "AuthenticationError")
        ELSE LET canAccess == \/ firebaseUid(targetUser) = firebaseUid(requester)
                              \/ requester.v.systemRole \in {"super_admin", "system_admin"}
             IN  IF ~canAccess
                 THEN Thrown(op, userFirebaseUid, requesterFirebaseUid, "AuthenticationError")
                 ELSE Returned(op, userFirebaseUid, requesterFirebaseUid,
                               Obj([organizations |->
                                        findMembershipsWithOrganizations(targetUser.v.id),
                                    user |-> targetUser.v.id]))

\* UserService.getUserOrganizations(userFirebaseUid, requesterFirebaseUid)
getUserOrganizations(userFirebaseUid, requesterFirebaseUid) ==
    LET op == "getUserOrganizations"
        targetUser == findUser(userFirebaseUid)
        requester == findUser(requesterFirebaseUid)
    IN  IF ~Truthy(targetUser)
        THEN Thrown(op, userFirebaseUid, requesterFirebaseUid, "AuthenticationError")
        ELSE IF ~Truthy(requester)
        THEN Thrown(op, userFirebaseUid, requesterFirebaseUid, "AuthenticationError")
        ELSE LET canAccess == \/ firebaseUid(targetUser) = firebaseUid(requester)
                              \/ isSuperAdmin(requester)
             IN  IF ~canAccess
                 THEN Thrown(op, userFirebaseUid, requesterFirebaseUid, "AuthenticationError")
                 ELSE Returned(op, userFirebaseUid, requesterFirebaseUid,
                               Obj([organizations |->
                                        findMembershipsWithOrganizations(targetUser.v.id),
                                    user |-> targetUser.v.id]))

GetUserOrganizations(userFirebaseUid, requesterFirebaseUid) ==
    /\ last' = getUserOrganizations(userFirebaseUid, requesterFirebaseUid)
    /\ UNCHANGED <<rows, custom, req, guard, users, orgs, walk>>
    /\ UNCHANGED part4Vars

\* The users table is any of the tables; nothing else has happened yet.
InitUsers ==
    /\ rows = <<>>
    /\ custom = <<>>
    /\ last = NoCall
    /\ req = NoRequest
    /\ guard = NoGuard
    /\ users \in UserTables
    /\ orgs = <<>>
    /\ walk = NoWalk
    /\ slugs = <<>>
    /\ procs = <<>>
    /\ accounts = <<>>

\* The uids of the three users and one that belongs to nobody.
FirebaseUids == {"f1", "f2", "f3", "f9"}

\* Memberships are created for u1 in an active and in the inactive
\* organization, and for u2.
UserMembers == {<<"u1", "o1">>, <<"u1", "o3">>, <<"u2", "o1">>}

NextUsers ==
    \/ \E m \in UserMembers :
          Create([userId |-> m[1], organizationId |-> m[2], role |-> Str("manager"),
                  permissions |-> EmptyObject])
    \/ \E id \in 1..MaxRows : Deactivate(id)
    \/ \E target \in FirebaseUids, requester \in FirebaseUids :
          GetUserOrganizations(target, requester)

SpecUsers == InitUsers /\ [][NextUsers]_vars

(***************************************************************************)
(* Properties of the user service (checked under SpecUsers).               *)
(***************************************************************************)
\* The row of the user with the given uid; the uid must be some user's.
UserOf(uid) == users[CHOOSE i \in DOMAIN users : firebaseUid(users[i]) = uid]

IsUser(uid) == \E i \in DOMAIN users : firebaseUid(users[i]) = uid

ParamsInputs ==
    {EmptyObject,
     Obj([tenantSlug |-> Str("")]),
     Obj([tenantSlug |-> Str("acme")]),
     Obj([orgSlug |-> Str("acme")]),
     Obj([tenantSlug |-> Str("acme"), orgSlug |-> Str("beta")]),
     Obj([tenantSlug |-> Str(""), orgSlug |-> Str("beta")])}

HeadersInputs ==
    {EmptyObject,
     Obj("x-tenant-id" :> Str("")),
     Obj("x-tenant-id" :> Str("beta")),
     Obj("x-organization-slug" :> Str("old")),
     Obj("x-tenant-id" :> Str("beta") @@ "x-organization-slug" :> Str("old")),
     Obj("x-tenant-id" :> Str("") @@ "x-organization-slug" :> Str("old"))}

HostInputs ==
    {Undefined,
     Host(<<>>),
     Host(<<"localhost">>),
     Host(<<"acme", ".", "com">>),
     Host(<<"www", ".", "com">>),
     Host(<<"acme", ".", "example", ".", "com">>),
     Host(<<"www", ".", "example", ".", "com">>),
     Host(<<"api", ".", "example", ".", "com">>),
     Host(<<"WWW", ".", "example", ".", "com">>),
     Host(<<".", "example", ".", "com">>),
     Host(<<"a", ".", "b", ".", "c", ".", "d">>)}

ExtractTenantIdentifier(signals) ==
    /\ req' = [NewRequest("extractTenantIdentifier", Undefined, signals) EXCEPT
                  !.tenantSlugFound = extractTenantIdentifier(signals),
                  !.pc = "done"]
    /\ UNCHANGED <<rows, custom, last, guard, users, orgs, walk>>
    /\ UNCHANGED part4Vars

NextTenantIdentifier ==
    \E params \in ParamsInputs, headers \in HeadersInputs, host \in HostInputs :
        ExtractTenantIdentifier([params |-> params, headers |-> headers, host |-> host])

SpecTenantIdentifier == Init /\ [][NextTenantIdentifier]_vars

(***************************************************************************)
(* Properties of extractTenantIdentifier (checked under                    *)
(* SpecTenantIdentifier).                                                  *)
(***************************************************************************)
Extracted == req.mw = "extractTenantIdentifier" /\ req.pc = "done"

\* The path parameters and the headers that carry a non-empty value.
PathSignals == {k \in {"tenantSlug", "orgSlug"} : Truthy(Get(req.params, k))}

HeaderSignals ==
    {k \in {"x-tenant-id", "x-organization-slug"} : Truthy(Get(req.headers, k))}

\* The number of dot-separated labels of the host and its leftmost label.
Labels ==
    IF req.host = Undefined THEN 0
    ELSE Cardinality({i \in DOMAIN req.host.v : req.host.v[i] = "."}) + 1

Leftmost ==
    IF req.host = Undefined \/ req.host.v = <<>> THEN ""
    ELSE IF Head(req.host.v) = "." THEN "" ELSE Head(req.host.v)

HostSignal == Labels >= 3 /\ Leftmost \notin {"", "www", "api"}

\* C22: extractTenantIdentifier returns the first signal that carries a
\* value, in the order path parameter, header, host: a path parameter wins
\* over any header and host, a header wins over any host, and without any
\* signal the result is null.
C22_FirstPresentSignal ==
    Extracted =>
        /\ PathSignals # {} =>
              req.tenantSlugFound =
                  IF "tenantSlug" \in PathSignals
                  THEN Get(req.params, "tenantSlug") ELSE Get(req.params, "orgSlug")
        /\ (PathSignals = {} /\ HeaderSignals # {}) =>
              req.tenantSlugFound =
                  IF "x-tenant-id" \in HeaderSignals
                  THEN Get(req.headers, "x-tenant-id")
                  ELSE Get(req.headers, "x-organization-slug")
        /\ (PathSignals = {} /\ HeaderSignals = {} /\ HostSignal) =>
              req.tenantSlugFound = Str(Leftmost)
        /\ (PathSignals = {} /\ HeaderSignals = {} /\ ~HostSignal) =>
              req.tenantSlugFound = Null

\* A request carrying a path parameter, a different header and a host with
\* a subdomain has been resolved to the path parameter.
C22_Witness ==
    /\ Extracted
    /\ PathSignals # {} /\ HeaderSignals # {} /\ HostSignal
    /\ Get(req.params, "tenantSlug") # Get(req.headers, "x-tenant-id")
    /\ req.tenantSlugFound = Get(req.params, "tenantSlug")

\* C23: without path parameter and header, the host yields a tenant only
\* when it has at least three dot-separated labels, the tenant is then the
\* leftmost label, a host with fewer labels yields none, and "www" and
\* "api" are never the tenant.
C23_HostNeedsThreeLabels ==
    (Extracted /\ PathSignals = {} /\ HeaderSignals = {}) =>
        /\ req.tenantSlugFound # Null =>
              /\ Labels >= 3
              /\ req.tenantSlugFound = Str(Leftmost)
        /\ Labels < 3 => req.tenantSlugFound = Null
        /\ req.tenantSlugFound \notin {Str("www"), Str("api")}
        /\ HostSignal => req.tenantSlugFound = Str(Leftmost)

\* A host of two labels has yielded no tenant.
C23_Witness ==
    /\ Extracted /\ PathSignals = {} /\ HeaderSignals = {}
    /\ Labels = 2 /\ Leftmost = "acme"
    /\ req.tenantSlugFound = Null

(***************************************************************************)
(* The Organization model (organizations table, paranoid).  A row of orgs  *)
(* is [parentId, isActive, deleted]; its id is its index and parentId 0 is *)
(* null.                                                                   *)
(***************************************************************************)
Organization(parentId) == [parentId |-> parentId, isActive |-> TRUE, deleted |-> FALSE]

\* Organization.findByPk(id): the id of the row, 0 (null) when there is no
\* such row or it is soft-deleted.
findByPk(id) == IF id \in DOMAIN orgs /\ ~orgs[id].deleted THEN id ELSE 0

\* The ids in S in ascending order.
RECURSIVE Ascending(_)
Ascending(S) ==
    IF S = {} THEN <<>>
    ELSE LET m == CHOOSE x \in S : \A y \in S : x <= y
         IN  <<m>> \o Ascending(S \ {m})

\* Organization.findAll({ where: { parentId, isActive: true } })
findAllChildren(parentId) ==
    Ascending({i \in DOMAIN orgs :
                  /\ ~orgs[i].deleted
                  /\ orgs[i].parentId = parentId
                  /\ orgs[i].isActive})

\* The result lists are recorded up to this length.
ListCap == MaxOrgs + 1

unshift(list, x) == IF Len(list) < ListCap THEN <<x>> \o list ELSE list

push(list, xs) == SubSeq(list \o xs, 1, IF Len(list \o xs) < ListCap THEN Len(list \o xs) ELSE ListCap)

\* A traversal between two awaits: the method, its receiver and argument,
\* its local variables, its result once pc is "done", and the parity of
\* the event-loop turn it runs in.
Walk(op, pc, self, arg, current, list, queue, ret) ==
    [op |-> op, pc |-> pc, self |-> self, arg |-> arg, current |-> current,
     list |-> list, queue |-> queue, ret |-> ret, turn |-> 0]

\* getFullHierarchy up to its first query.
getFullHierarchy(self) ==
    IF orgs[self].parentId # 0
    THEN Walk("getFullHierarchy", "running", self, 0, self, <<self>>, <<>>, FALSE)
    ELSE Walk("getFullHierarchy", "done", self, 0, 0, <<self>>, <<>>, FALSE)

\* getAllDescendants up to its first query.
getAllDescendants(self) ==
    Walk("getAllDescendants", "running", self, 0, 0, <<>>, <<self>>, FALSE)

\* The while loop of isDescendantOf up to its next query.
isDescendantOfLoop(op, self, ancestorId, current) ==
    IF current # 0 /\ orgs[current].parentId # 0
    THEN IF orgs[current].parentId = ancestorId
         THEN Walk(op, "done", self, ancestorId, current, <<>>, <<>>, TRUE)
         ELSE Walk(op, "running", self, ancestorId, current, <<>>, <<>>, FALSE)
    ELSE Walk(op, "done", self, ancestorId, current, <<>>, <<>>, FALSE)

\* isDescendantOf up to its first query.
isDescendantOf(self, ancestorId) ==
    isDescendantOfLoop("isDescendantOf", self, ancestorId, self)

\* validateHierarchy up to its first query; self is the parent, arg the
\* child.
validateHierarchy(parentId, childId) ==
    IF parentId = 0 \/ childId = 0 \/ parentId = childId
    THEN Walk("validateHierarchy", "done", parentId, childId, 0, <<>>, <<>>, FALSE)
    ELSE Walk("validateHierarchy", "find", parentId, childId, 0, <<>>, <<>>, FALSE)

\* The traversal from one query to the next, or to its return.
resume(w) ==
    IF w.op = "getFullHierarchy"
    THEN LET current == findByPk(orgs[w.current].parentId)
         IN  IF current = 0 THEN [w EXCEPT !.pc = "done", !.current = 0]
             ELSE IF orgs[current].parentId # 0
             THEN [w EXCEPT !.current = current, !.list = unshift(w.list, current)]
             ELSE [w EXCEPT !.pc = "done", !.current = 0,
                            !.list = unshift(w.list, current)]
    ELSE IF w.op = "getAllDescendants"
    THEN LET children == findAllChildren(Head(w.queue))
             queue == Tail(w.queue) \o children
         IN  [w EXCEPT !.list = push(w.list, children), !.queue = queue,
                       !.pc = IF queue = <<>> THEN "done" ELSE "running"]
    ELSE IF w.op = "isDescendantOf"
    THEN isDescendantOfLoop(w.op, w.self, w.arg, findByPk(orgs[w.current].parentId))
    ELSE IF w.pc = "find"
    THEN LET parent == findByPk(w.self)
         IN  IF parent = 0 THEN [w EXCEPT !.pc = "done"]
             ELSE LET loop == isDescendantOfLoop(w.op, w.self, w.arg, parent)
                  IN  [loop EXCEPT !.ret = IF loop.pc = "done" THEN ~loop.ret ELSE FALSE]
    ELSE LET loop == isDescendantOfLoop(w.op, w.self, w.arg,
                                        findByPk(orgs[w.current].parentId))
         IN  [loop EXCEPT !.ret = IF loop.pc = "done" THEN ~loop.ret ELSE FALSE]

\* The continuation runs in the next turn of the event loop.
step(w) == [resume(w) EXCEPT !.turn = 1 - w.turn]

\* More steps than any traversal that returns takes on MaxOrgs rows.
Fuel == 2 * MaxOrgs + 3

\* The traversal followed for at most n steps: its return, or where it
\* still is when it has not returned by then.
RECURSIVE run(_, _)
run(w, n) == IF w.pc = "done" \/ n = 0 THEN w ELSE run(step(w), n - 1)

\* A row a finder returns: stored and not soft-deleted.
Exists(id) == id \in DOMAIN orgs /\ ~orgs[id].deleted

(***************************************************************************)
(* Operations on organizations.  A traversal is taken as a whole, on the   *)
(* table as it is when it is called.                                       *)
(***************************************************************************)
\* Organization.create({ parentId }), the parent validated when there is one.
CreateOrganization(parentId) ==
    /\ walk = NoWalk
    /\ Len(orgs) < MaxOrgs
    /\ parentId # 0 =>
          LET v == run(validateHierarchy(parentId, Len(orgs) + 1), Fuel)
          IN  v.pc = "done" /\ v.ret
    /\ orgs' = Append(orgs, Organization(parentId))
    /\ UNCHANGED <<rows, custom, last, req, guard, users, walk>>
    /\ UNCHANGED part4Vars

\* organization.destroy(): beforeDestroy soft-deletes the rows whose
\* parentId is the organization's id, then the organization is soft-deleted.
DestroyOrganization(id) ==
    /\ walk = NoWalk
    /\ Exists(id)
    /\ orgs' = [i \in DOMAIN orgs |->
                   IF i = id \/ orgs[i].parentId = id
                   THEN [orgs[i] EXCEPT !.deleted = TRUE] ELSE orgs[i]]
    /\ UNCHANGED <<rows, custom, last, req, guard, users, walk>>
    /\ UNCHANGED part4Vars

\* organization.update({ isActive: false })
DeactivateOrganization(id) ==
    /\ walk = NoWalk
    /\ Exists(id)
    /\ orgs[id].isActive
    /\ orgs' = [orgs EXCEPT ![id].isActive = FALSE]
    /\ UNCHANGED <<rows, custom, last, req, guard, users, walk>>
    /\ UNCHANGED part4Vars

\* organization.update({ parentId }) after validateHierarchy(parentId, id)
\* returned true.
SetParent(id, parentId) ==
    /\ walk = NoWalk
    /\ Exists(id)
    /\ LET v == run(validateHierarchy(parentId, id), Fuel)
       IN  v.pc = "done" /\ v.ret
    /\ orgs' = [orgs EXCEPT ![id].parentId = parentId]
    /\ UNCHANGED <<rows, custom, last, req, guard, users, walk>>
    /\ UNCHANGED part4Vars

GetFullHierarchy(self) ==
    /\ walk = NoWalk
    /\ Exists(self)
    /\ walk' = run(getFullHierarchy(self), Fuel)
    /\ UNCHANGED <<rows, custom, last, req, guard, users, orgs>>
    /\ UNCHANGED part4Vars

GetAllDescendants(self) ==
    /\ walk = NoWalk
    /\ Exists(self)
    /\ walk' = run(getAllDescendants(self), Fuel)
    /\ UNCHANGED <<rows, custom, last, req, guard, users, orgs>>
    /\ UNCHANGED part4Vars

IsDescendantOf(self, ancestorId) ==
    /\ walk = NoWalk
    /\ Exists(self)
    /\ walk' = run(isDescendantOf(self, ancestorId), Fuel)
    /\ UNCHANGED <<rows, custom, last, req, guard, users, orgs>>
    /\ UNCHANGED part4Vars

ValidateHierarchy(parentId, childId) ==
    /\ walk = NoWalk
    /\ walk' = run(validateHierarchy(parentId, childId), Fuel)
    /\ UNCHANGED <<rows, custom, last, req, guard, users, orgs>>
    /\ UNCHANGED part4Vars

NextOrganization ==
    \/ \E parentId \in 0..MaxOrgs : CreateOrganization(parentId)
    \/ \E id \in 1..MaxOrgs : DestroyOrganization(id)
    \/ \E id \in 1..MaxOrgs : DeactivateOrganization(id)
    \/ \E id \in 1..MaxOrgs, parentId \in 1..MaxOrgs : SetParent(id, parentId)
    \/ \E self \in 1..MaxOrgs : GetFullHierarchy(self)
    \/ \E self \in 1..MaxOrgs : GetAllDescendants(self)
    \/ \E self \in 1..MaxOrgs, ancestorId \in 1..MaxOrgs : IsDescendantOf(self, ancestorId)
    \/ \E parentId \in 0..MaxOrgs, childId \in 1..MaxOrgs :
          ValidateHierarchy(parentId, childId)

SpecOrganization == Init /\ [][NextOrganization]_vars

(***************************************************************************)
(* Properties of the organization hierarchy (checked under                 *)
(* SpecOrganization).                                                      *)
(***************************************************************************)
\* The proper ancestors of an organization through the stored parent
\* references, soft-deleted rows included.
RECURSIVE Above(_, _)
Above(S, n) ==
    IF n = 0 THEN S
    ELSE Above(S \cup ({orgs[i].parentId : i \in S} \ {0}), n - 1)

Ancestors(id) ==
    IF orgs[id].parentId = 0 THEN {} ELSE Above({orgs[id].parentId}, Len(orgs))

Acyclic == \A id \in DOMAIN orgs : id \notin Ancestors(id)

Returns(op) == walk.op = op /\ walk.pc = "done"

\* C25: on an acyclic parent chain getFullHierarchy returns a sequence that
\* ends with the organization itself, starts with a root (no parent
\* reference) and in which each element is the parent of the next.
C25_HierarchyRootToSelf ==
    (Returns("getFullHierarchy") /\ Acyclic) =>
        /\ walk.list # <<>>
        /\ walk.list[Len(walk.list)] = walk.self
        /\ orgs[walk.list[1]].parentId = 0
        /\ \A k \in 1..(Len(walk.list) - 1) :
              orgs[walk.list[k + 1]].parentId = walk.list[k]

\* C26: on an acyclic forest getAllDescendants returns only organizations
\* that have the receiver as a proper ancestor, each once and never the
\* receiver, and it leaves out none of them that is not soft-deleted.
C26_AllDescendants ==
    (Returns("getAllDescendants") /\ Acyclic) =>
        /\ \A k \in DOMAIN walk.list :
              /\ walk.self \in Ancestors(walk.list[k])
              /\ walk.list[k] # walk.self
              /\ \A j \in DOMAIN walk.list : walk.list[j] = walk.list[k] => j = k
        /\ \A id \in DOMAIN orgs :
              (Exists(id) /\ walk.self \in Ancestors(id)) =>
                  \E k \in DOMAIN walk.list : walk.list[k] = id

\* C27: on an acyclic parent chain isDescendantOf(ancestorId) is true only
\* when ancestorId is a proper ancestor of the receiver through the stored
\* parent references, and it is true for every such ancestor that is not
\* soft-deleted itself, a soft-deleted organization between them or not.
C27_DescendantIffAncestor ==
    (Returns("isDescendantOf") /\ Acyclic) =>
        /\ walk.ret => walk.arg \in Ancestors(walk.self)
        /\ (Exists(walk.arg) /\ walk.arg \in Ancestors(walk.self)) => walk.ret

\* C28: validateHierarchy(parentId, childId) rejects when the two are
\* equal, when the parent does not exist and when the child is an existing
\* organization and an ancestor of the parent, and accepts every other pair
\* of existing organizations.
C28_ValidateHierarchy ==
    (Returns("validateHierarchy") /\ walk.self # 0) =>
        LET parentId == walk.self
            childId == walk.arg
            cycle == parentId \in DOMAIN orgs /\ childId \in Ancestors(parentId)
        IN  /\ (parentId = childId \/ ~Exists(parentId)) => ~walk.ret
            /\ (cycle /\ Exists(childId)) => ~walk.ret
            /\ (Exists(parentId) /\ Exists(childId) /\ parentId # childId /\ ~cycle)
                  => walk.ret

\* C29: no organization is its own ancestor, whatever organizations were
\* created, destroyed and given a parent that validateHierarchy accepted.
C29_ParentRelationAcyclic == Acyclic

\* C30: no organization that is not soft-deleted has a soft-deleted
\* ancestor: destroying an organization soft-deletes its descendants at
\* every depth.
C30_CascadeToEveryDepth ==
    \A id \in DOMAIN orgs :
        Exists(id) => \A a \in Ancestors(id) : ~orgs[a].deleted

(***************************************************************************)
(* A traversal followed from one query to the next, on any stored parent   *)
(* graph: parentId is a plain foreign key, so every graph on the rows can  *)
(* be stored.  The event loop resumes a traversal whose query has          *)
(* returned.                                                               *)
(***************************************************************************)
OrganizationTables ==
    [1..MaxGraph -> [parentId : 0..MaxGraph, isActive : BOOLEAN, deleted : BOOLEAN]]

InitHierarchy ==
    /\ rows = <<>>
    /\ custom = <<>>
    /\ last = NoCall
    /\ req = NoRequest
    /\ guard = NoGuard
    /\ users = <<>>
    /\ orgs \in OrganizationTables
    /\ walk = NoWalk
    /\ slugs = <<>>
    /\ procs = <<>>
    /\ accounts = <<>>

CallGetFullHierarchy(self) ==
    /\ walk = NoWalk
    /\ Exists(self)
    /\ walk' = getFullHierarchy(self)
    /\ UNCHANGED <<rows, custom, last, req, guard, users, orgs>>
    /\ UNCHANGED part4Vars

CallGetAllDescendants(self) ==
    /\ walk = NoWalk
    /\ Exists(self)
    /\ walk' = getAllDescendants(self)
    /\ UNCHANGED <<rows, custom, last, req, guard, users, orgs>>
    /\ UNCHANGED part4Vars

CallIsDescendantOf(self, ancestorId) ==
    /\ walk = NoWalk
    /\ Exists(self)
    /\ walk' = isDescendantOf(self, ancestorId)
    /\ UNCHANGED <<rows, custom, last, req, guard, users, orgs>>
    /\ UNCHANGED part4Vars

\* The continuation after an await.
Resume ==
    /\ walk.pc = "running"
    /\ walk' = step(walk)
    /\ UNCHANGED <<rows, custom, last, req, guard, users, orgs>>
    /\ UNCHANGED part4Vars

NextHierarchy ==
    \/ \E self \in 1..MaxGraph : CallGetFullHierarchy(self)
    \/ \E self \in 1..MaxGraph : CallGetAllDescendants(self)
    \/ \E self \in 1..MaxGraph, ancestorId \in 1..MaxGraph :
          CallIsDescendantOf(self, ancestorId)
    \/ Resume

SpecHierarchy == InitHierarchy /\ [][NextHierarchy]_vars /\ WF_vars(Resume)

(***************************************************************************)
(* Termination of the traversals (checked under SpecHierarchy).            *)
(***************************************************************************)
\* C24: every traversal that is under way returns, whatever the stored
\* parent graph, a cyclic one included.
C24_TraversalsTerminate == (walk.pc = "running") ~> (walk.pc = "done")

(***************************************************************************)
(* Part 4: slugs, concurrent requests and user accounts.                   *)
(***************************************************************************)
(***************************************************************************)
(* The slug of an organization (beforeValidate and beforeCreate hooks).    *)
(* A name is a sequence of characters, a slug a string.  A row of slugs is *)
(* [name, slug, given, deleted]; its id is its index.                      *)
(***************************************************************************)
LowerCase == {"a", "c", "e", "m", "o", "p", "r"}

Digits == {"0", "1", "2", "3", "4", "5", "6", "7", "8", "9"}

\* String.prototype.toLowerCase, one character
toLowerCase(c) == IF c = "A" THEN "a" ELSE IF c = "C" THEN "c" ELSE c

\* The characters of a sequence joined into a string.
RECURSIVE join(_)
join(chars) == IF chars = <<>> THEN "" ELSE Head(chars) \o join(Tail(chars))

\* replace(/[^a-z0-9\s-]/g, '')
stripOthers(chars) ==
    SelectSeq(chars, LAMBDA c : c \in LowerCase \cup Digits \cup {" ", "-"})

\* replace(/\s+/g, '-') and replace(/-+/g, '-'): every run of the
\* character becomes one hyphen.
RECURSIVE collapse(_, _)
collapse(chars, c) ==
    IF chars = <<>> THEN <<>>
    ELSE IF Head(chars) = c
    THEN IF Tail(chars) # <<>> /\ Head(Tail(chars)) = c
         THEN collapse(Tail(chars), c)
         ELSE <<"-">> \o collapse(Tail(chars), c)
    ELSE <<Head(chars)>> \o collapse(Tail(chars), c)

\* String.prototype.trim (it takes no argument: white space only)
RECURSIVE trim(_)
trim(chars) ==
    IF chars = <<>> THEN <<>>
    ELSE IF Head(chars) = " " THEN trim(Tail(chars))
    ELSE IF chars[Len(chars)] = " " THEN trim(SubSeq(chars, 1, Len(chars) - 1))
    ELSE chars

\* The slug the beforeValidate hook derives from a name.
slugify(name) ==
    join(trim(collapse(collapse(stripOthers([i \in DOMAIN name |-> toLowerCase(name[i])]),
                                " "), "-")))

\* beforeValidate hook; slug "" is a slug that was not supplied.
beforeValidate(name, slug) == IF slug = "" /\ name # <<>> THEN slugify(name) ELSE slug

\* The validators of the name and slug columns on the names and slugs used
\* here: lengths, and the hyphen, letter and digit pattern.
validate(name, slug) ==
    /\ Len(name) >= 2
    /\ Len(slug) >= 2 /\ Len(slug) <= 50

\* Organization.findOne({ where: { slug } }): a row that is not soft-deleted
findOneBySlug(slug) == \E i \in DOMAIN slugs : ~slugs[i].deleted /\ slugs[i].slug = slug

\* The candidate the loop of beforeCreate tries with the given counter.
candidate(baseSlug, counter) ==
    IF counter = 0 THEN baseSlug ELSE baseSlug \o "-" \o ToString(counter)

\* beforeCreate hook: the first candidate, from the one with the given
\* counter on, that findOne does not find.
slugFromLoop(baseSlug, counter) ==
    LET free == {n \in counter..(Len(slugs) + counter) :
                    ~findOneBySlug(candidate(baseSlug, n))}
    IN  candidate(baseSlug, CHOOSE n \in free : \A m \in free : n <= m)

\* The unique index on slug: it covers every row, soft-deleted ones
\* included.
unique_slug(slug) == \A i \in DOMAIN slugs : slugs[i].slug # slug

\* The outcome of Organization.create.
Created(ok, id, slug, error) ==
    [op |-> "createOrganization", ok |-> ok, id |-> id, slug |-> slug, error |-> error]

\* Organization.create({ name, slug })
CreateNamed(name, slug) ==
    /\ Len(slugs) < MaxSlugs
    /\ LET derived == beforeValidate(name, slug)
       IN  IF ~validate(name, derived)
           THEN /\ last' = Created(FALSE, 0, derived, "SequelizeValidationError")
                /\ UNCHANGED slugs
           ELSE LET assigned == slugFromLoop(derived, 0)
                IN  IF unique_slug(assigned)
                    THEN /\ slugs' = Append(slugs, [name |-> name, slug |-> assigned,
                                                    given |-> slug # "", deleted |-> FALSE])
                         /\ last' = Created(TRUE, Len(slugs) + 1, assigned, "")
                    ELSE /\ last' = Created(FALSE, 0, assigned,
                                            "SequelizeUniqueConstraintError")
                         /\ UNCHANGED slugs
    /\ UNCHANGED <<rows, custom, req, guard, users, orgs, walk, procs, accounts>>

\* organization.destroy() on an organization without sub-organizations
DestroyNamed(id) ==
    /\ id \in DOMAIN slugs
    /\ ~slugs[id].deleted
    /\ slugs' = [slugs EXCEPT ![id].deleted = TRUE]
    /\ UNCHANGED <<rows, custom, last, req, guard, users, orgs, walk, procs, accounts>>

NameInputs ==
    {<<"A", "c", "m", "e", " ", "C", "o", "r", "p", "!", "!">>,
     <<"a", "c", "m", "e", " ", " ", "c", "o", "r", "p">>,
     <<" ", "A", "c", "m", "e">>,
     <<"!", "!">>}

SlugInputs == {"", "acme-corp-1"}

NextSlug ==
    \/ \E name \in NameInputs, slug \in SlugInputs : CreateNamed(name, slug)
    \/ \E id \in 1..MaxSlugs : DestroyNamed(id)

SpecSlug == Init /\ [][NextSlug]_vars

(***************************************************************************)
(* Properties of slug assignment (checked under SpecSlug).                 *)
(***************************************************************************)
BaseSlug == "acme-corp"

\* While nothing was destroyed and no slug was supplied, the k-th
\* organization of the same name has the base slug (k = 1) or the base slug
\* with suffix k - 1.
SameNameSuffixes ==
    (\A i \in DOMAIN slugs :
        ~slugs[i].deleted /\ ~slugs[i].given /\ slugify(slugs[i].name) = BaseSlug) =>
    \A k \in DOMAIN slugs : slugs[k].slug = candidate(BaseSlug, k - 1)

\* C31: the k-th organization created with the same name and no slug gets
\* the base slug with suffix k - 1 (none for the first), and the slug a
\* creation assigns differs from the slug of every row stored before it,
\* soft-deleted rows included.
C31_AssignedSlugIsNew ==
    /\ SameNameSuffixes
    /\ (last.op = "createOrganization" /\ last.error # "SequelizeValidationError") =>
          \A i \in DOMAIN slugs : i # last.id => slugs[i].slug # last.slug

(***************************************************************************)
(* The loop of the beforeCreate hook followed from one findOne to the      *)
(* next, while other requests create and destroy organizations.            *)
(***************************************************************************)
\* Organization.create up to the first findOne of beforeCreate.
BeginCreate(name, slug) ==
    /\ procs = <<>>
    /\ validate(name, beforeValidate(name, slug))
    /\ procs' = [pc |-> "findOne", name |-> name, given |-> slug # "",
                 baseSlug |-> beforeValidate(name, slug),
                 slug |-> beforeValidate(name, slug), counter |-> 1]
    /\ UNCHANGED <<rows, custom, last, req, guard, users, orgs, walk, slugs, accounts>>

\* One test of the while condition: findOne found a row, so the next
\* candidate is taken, or it found none and the loop ends.
FindOne ==
    /\ procs # <<>>
    /\ procs.pc = "findOne"
    /\ IF findOneBySlug(procs.slug)
       THEN procs' = [procs EXCEPT !.slug = candidate(procs.baseSlug, procs.counter),
                                   !.counter = procs.counter + 1]
       ELSE procs' = [procs EXCEPT !.pc = "insert"]
    /\ UNCHANGED <<rows, custom, last, req, guard, users, orgs, walk, slugs, accounts>>

\* The INSERT after the hooks.
Insert ==
    /\ procs # <<>>
    /\ procs.pc = "insert"
    /\ unique_slug(procs.slug) => Len(slugs) < MaxSlugs
    /\ IF unique_slug(procs.slug)
       THEN /\ slugs' = Append(slugs, [name |-> procs.name, slug |-> procs.slug,
                                       given |-> procs.given, deleted |-> FALSE])
            /\ procs' = [procs EXCEPT !.pc = "created"]
       ELSE /\ procs' = [procs EXCEPT !.pc = "failed"]
            /\ UNCHANGED slugs
    /\ UNCHANGED <<rows, custom, last, req, guard, users, orgs, walk, accounts>>

NextSlugRace ==
    \/ \E name \in NameInputs, slug \in SlugInputs : BeginCreate(name, slug)
    \/ FindOne
    \/ Insert
    \/ \E name \in NameInputs, slug \in SlugInputs : CreateNamed(name, slug)
    \/ \E id \in 1..MaxSlugs : DestroyNamed(id)

SpecSlugRace == Init /\ [][NextSlugRace]_vars

(***************************************************************************)
(* The bound of the slug loop (checked under SpecSlugRace).                *)
(***************************************************************************)
\* C32: the loop of beforeCreate makes at most MaxRetries retries, also
\* when other creators take each candidate slug before it is tested.
C32_RetriesBounded == procs # <<>> => procs.counter - 1 <= MaxRetries

(***************************************************************************)
(* membership.destroy() followed through its awaits: the count query of    *)
(* the beforeDestroy hook and the soft delete are separate statements, and *)
(* no transaction holds them together.  A row of procs is a request: its   *)
(* position, the instance it destroys and the count it has read.           *)
(***************************************************************************)
\* membership.destroy() called on a loaded instance.
BeginDestroy(id) ==
    /\ Len(procs) < MaxRequests
    /\ Live(id)
    /\ procs' = Append(procs, [pc |-> IF rows[id].role = "owner" THEN "count" ELSE "delete",
                               orgUser |-> rows[id], otherOwners |-> 0])
    /\ UNCHANGED <<rows, custom, last, req, guard, users, orgs, walk, slugs, accounts>>

\* await OrganizationUser.count(...) in beforeDestroy, and the throw when
\* it is 0.
CountOwners(p) ==
    /\ p \in DOMAIN procs
    /\ procs[p].pc = "count"
    /\ LET count == otherOwners(procs[p].orgUser)
       IN  procs' = [procs EXCEPT ![p].otherOwners = count,
                                  ![p].pc = IF count = 0 THEN "refused" ELSE "delete"]
    /\ UNCHANGED <<rows, custom, last, req, guard, users, orgs, walk, slugs, accounts>>

\* The soft delete after the hook.
DeleteRow(p) ==
    /\ p \in DOMAIN procs
    /\ procs[p].pc = "delete"
    /\ rows' = [rows EXCEPT ![procs[p].orgUser.id].deleted = TRUE]
    /\ procs' = [procs EXCEPT ![p].pc = "destroyed"]
    /\ UNCHANGED <<custom, last, req, guard, users, orgs, walk, slugs, accounts>>

NextOwnerRace ==
    \/ \E m \in Members, r \in OwnerRoles :
          Create([userId |-> m[1], organizationId |-> m[2], role |-> Str(r),
                  permissions |-> Undefined])
    \/ \E id \in 1..MaxRows : BeginDestroy(id)
    \/ \E p \in 1..MaxRequests : CountOwners(p)
    \/ \E p \in 1..MaxRequests : DeleteRow(p)

SpecOwnerRace == Init /\ [][NextOwnerRace]_vars

(***************************************************************************)
(* The last-owner rule under concurrent removals (checked under            *)
(* SpecOwnerRace).                                                         *)
(***************************************************************************)
\* C33: two removals of two different owner memberships of one
\* organization never both succeed unless the organization still has an
\* active owner.
C33_ConcurrentRemovalsKeepAnOwner ==
    \A p \in DOMAIN procs, q \in DOMAIN procs :
        (/\ p # q
         /\ procs[p].pc = "destroyed" /\ procs[q].pc = "destroyed"
         /\ procs[p].orgUser.role = "owner" /\ procs[q].orgUser.role = "owner"
         /\ procs[p].orgUser.isActive /\ procs[q].orgUser.isActive
         /\ procs[p].orgUser.id # procs[q].orgUser.id
         /\ procs[p].orgUser.organizationId = procs[q].orgUser.organizationId)
        => ActiveOwners(rows, procs[p].orgUser.organizationId) # {}

(***************************************************************************)
(* A parent reassignment followed through its awaits: validateHierarchy    *)
(* reads the table, the update writes it later, and no transaction holds   *)
(* them together.  A row of procs is a request: its position, the          *)
(* organization and the parent it is given.                                *)
(***************************************************************************)
\* A request to give an organization a parent arrives.
BeginSetParent(id, parentId) ==
    /\ walk = NoWalk
    /\ Len(procs) < MaxRequests
    /\ Exists(id)
    /\ procs' = Append(procs, [pc |-> "validate", id |-> id, parentId |-> parentId])
    /\ UNCHANGED <<rows, custom, last, req, guard, users, orgs, walk, slugs, accounts>>

\* await Organization.validateHierarchy(parentId, id)
Validate(p) ==
    /\ p \in DOMAIN procs
    /\ procs[p].pc = "validate"
    /\ LET v == run(validateHierarchy(procs[p].parentId, procs[p].id), Fuel)
       IN  procs' = [procs EXCEPT ![p].pc = IF v.pc = "done" /\ v.ret
                                            THEN "update" ELSE "rejected"]
    /\ UNCHANGED <<rows, custom, last, req, guard, users, orgs, walk, slugs, accounts>>

\* await organization.update({ parentId })
Update(p) ==
    /\ p \in DOMAIN procs
    /\ procs[p].pc = "update"
    /\ orgs' = [orgs EXCEPT ![procs[p].id].parentId = procs[p].parentId]
    /\ procs' = [procs EXCEPT ![p].pc = "updated"]
    /\ UNCHANGED <<rows, custom, last, req, guard, users, walk, slugs, accounts>>

NextParentRace ==
    \/ \E parentId \in 0..MaxOrgs : CreateOrganization(parentId)
    \/ \E id \in 1..MaxOrgs, parentId \in 1..MaxOrgs : BeginSetParent(id, parentId)
    \/ \E p \in 1..MaxRequests : Validate(p)
    \/ \E p \in 1..MaxRequests : Update(p)

SpecParentRace == Init /\ [][NextParentRace]_vars

(***************************************************************************)
(* The hierarchy under concurrent reassignments (checked under             *)
(* SpecParentRace).                                                        *)
(***************************************************************************)
\* C34: once the concurrent parent reassignments, each validated before
\* its write, have completed, no organization is its own ancestor.
C34_ConcurrentReassignmentsAcyclic ==
    (\A p \in DOMAIN procs : procs[p].pc \in {"updated", "rejected"}) => Acyclic

(***************************************************************************)
(* Outcomes of tenantMiddleware and the guards (checked under SpecTenant). *)
(***************************************************************************)
\* Every field of the tenant context has been assigned.
ContextSet(r) ==
    /\ r.tenant # Undefined /\ r.tenantId # Undefined /\ r.tenantSlug # Undefined
    /\ r.orgMembership # Undefined /\ r.orgRole # Undefined
    /\ r.orgPermissions # Undefined

\* C35: a run of tenantMiddleware makes no terminal call while it waits
\* and exactly one when it has ended (next(), one error response or
\* next(error)), and the six tenant context fields are set exactly when
\* that call is next() without error; otherwise none of them is set.
C35_OneOutcomeContextIffAuthorized ==
    req.mw = "tenantMiddleware" =>
        /\ req.pc # "done" => (req.calls = 0 /\ req.outcome = "none")
        /\ req.pc = "done" =>
              (req.calls = 1 /\ req.outcome \in {"next", "res.error", "next(error)"})
        /\ IF req.outcome = "next" THEN ContextSet(req) ELSE NoContext(req)

\* A run has ended with next(error) after its third query failed, once the
\* access check had passed, and no context field is set.
C35_Witness ==
    /\ req.mw = "tenantMiddleware" /\ req.pc = "done"
    /\ req.outcome = "next(error)" /\ Len(req.queries) = 3
    /\ req.calls = 1
    /\ NoContext(req)

\* C37: a guard applied to a request without tenant context rejects it
\* with 401 TENANT_CONTEXT_REQUIRED, whoever the caller is, a super admin
\* included.
C37_NoGuardPassesWithoutContext ==
    (guard.name # "none" /\ ~Truthy(req.tenant)) =>
        /\ guard.outcome = "res.error"
        /\ guard.status = 401
        /\ guard.code = "TENANT_CONTEXT_REQUIRED"

\* requireOrgRole has rejected a super admin whose request
\* optionalTenantMiddleware passed on without context.
C37_Witness ==
    /\ guard.name = "requireOrgRole"
    /\ req.mw = "optionalTenantMiddleware" /\ NoContext(req)
    /\ Truthy(req.user) /\ isSuperAdmin(req.user)
    /\ guard.code = "TENANT_CONTEXT_REQUIRED"

(***************************************************************************)
(* tenantMiddleware while other requests change the memberships: the       *)
(* store moves between the queries of a run.                               *)
(***************************************************************************)
NextTenantRace ==
    \/ \E m \in TenantMembers, r \in TenantRoles :
          Create([userId |-> m[1], organizationId |-> m[2], role |-> Str(r),
                  permissions |-> EmptyObject])
    \/ \E id \in 1..MaxRows : Deactivate(id)
    \/ \E id \in 1..MaxRows : Destroy(id)
    \/ \E user \in UserInputs, signals \in SignalInputs : TenantMiddleware(user, signals)
    \/ TenantOrganization
    \/ TenantCheckUserAccess
    \/ TenantMembership
    \/ TenantQueryFails
    \/ UpdateLastAccess
    \/ UpdateLastAccessFails
    \/ Finish

SpecTenantRace == Init /\ [][NextTenantRace]_vars

(***************************************************************************)
(* The authorized context under concurrent changes (checked under          *)
(* SpecTenantRace).                                                        *)
(***************************************************************************)
\* C36: the context of a caller who is not a super admin and was
\* authorized carries a membership, its role and its permissions, none of
\* them null.
C36_AuthorizedContextHasMembership ==
    (/\ req.mw = "tenantMiddleware" /\ req.pc = "done" /\ req.outcome = "next"
     /\ ~isSuperAdmin(req.user)) =>
        /\ Truthy(req.orgMembership)
        /\ req.orgRole # Null
        /\ req.orgPermissions = req.orgMembership.v.permissions

(***************************************************************************)
(* canUserPerformAction (tenant.middleware.js).                            *)
(***************************************************************************)
\* The names the module binds: its imports.
ModuleBindings ==
    {"Organization", "OrganizationUser", "AuthenticationError", "ValidationError", "logger"}

\* User.findByPk(userId)
findUserByPk(userId) ==
    LET found == {i \in DOMAIN users : users[i].v.id = userId}
    IN  IF found = {} THEN Null ELSE users[CHOOSE i \in found : TRUE]

\* canUserPerformAction(userId, organizationId, resource, action): the value
\* the promise resolves to.  Reading a name the module does not bind throws
\* a ReferenceError, and the catch block returns false.
canUserPerformAction(userId, organizationId, resource, action) ==
    IF "User" \notin ModuleBindings THEN False
    ELSE LET user == findUserByPk(userId)
         IN  IF ~Truthy(user) THEN False
             ELSE IF isSuperAdmin(user) THEN True
             ELSE LET membership == findMembership(userId, organizationId)
                  IN  IF ~Truthy(membership) THEN False
                      ELSE LET granted == hasPermission(membership.v, resource, action)
                           IN  IF granted.threw THEN False ELSE granted.value

CanUserPerformAction(userId, organizationId, resource, action) ==
    /\ last' = [op |-> "canUserPerformAction", userId |-> userId,
                organizationId |-> organizationId, resource |-> resource,
                action |-> action,
                ret |-> canUserPerformAction(userId, organizationId, resource, action)]
    /\ UNCHANGED <<rows, custom, req, guard, users, orgs, walk, slugs, procs, accounts>>

UserIdInputs == {"u1", "u2", "u3", "u9"}

NextCanPerform ==
    \/ \E m \in UserMembers :
          Create([userId |-> m[1], organizationId |-> m[2], role |-> Str("manager"),
                  permissions |-> EmptyObject])
    \/ \E id \in 1..MaxRows : Deactivate(id)
    \/ \E userId \in UserIdInputs, organizationId \in {"o1", "o3"}, c \in GuardCells :
          CanUserPerformAction(userId, organizationId, c[1], c[2])

SpecCanPerform == InitUsers /\ [][NextCanPerform]_vars

(***************************************************************************)
(* Properties of canUserPerformAction (checked under SpecCanPerform).      *)
(***************************************************************************)
\* C38: canUserPerformAction returns true exactly when the user exists and
\* is a super admin or has an active membership in the organization whose
\* hasPermission(resource, action) is true, and false otherwise.
C38_CanPerformIffPermitted ==
    last.op = "canUserPerformAction" =>
        LET known == \E i \in DOMAIN users : users[i].v.id = last.userId
            permitted ==
                /\ known
                /\ \/ isSuperAdmin(findUserByPk(last.userId))
                   \/ \E i \in ActiveMemberships(last.userId, last.organizationId) :
                         hasPermission(rows[i], last.resource, last.action).value = True
        IN  last.ret = IF permitted THEN True ELSE False

(***************************************************************************)
(* UserService.updateUserSystemRole (src/services/user.service.js).        *)
(***************************************************************************)
\* The outcome of the call: whether it returned, the error it threw, and
\* the users table it leaves.
RoleUpdate(ok, error, table) == [ok |-> ok, error |-> error, users |-> table]

\* user.update({ systemRole: newSystemRole }) on the row of the user
updateSystemRole(user, newSystemRole) ==
    [i \in DOMAIN users |->
        IF users[i].v.id = user.v.id THEN User(user.v.id, newSystemRole) ELSE users[i]]

\* updateUserSystemRole accepting a system admin as the acting admin.
updateUserSystemRole_AnySystemAdmin(uid, newSystemRole, adminFirebaseUid) ==
    LET admin == findUser(adminFirebaseUid)
        user == findUser(uid)
        validRoles == <<"super_admin", "system_admin", "user">>
    IN  IF ~Truthy(admin) \/ admin.v.systemRole \notin {"super_admin", "system_admin"}
        THEN RoleUpdate(FALSE, "AuthenticationError", users)
        ELSE IF ~Truthy(user) THEN RoleUpdate(FALSE, "AuthenticationError", users)
        ELSE IF ~(\E k \in DOMAIN validRoles : validRoles[k] = newSystemRole)
        THEN RoleUpdate(FALSE, "ValidationError", users)
        ELSE RoleUpdate(TRUE, "", updateSystemRole(user, newSystemRole))

\* UserService.updateUserSystemRole(firebaseUid, newSystemRole, adminFirebaseUid)
updateUserSystemRole(uid, newSystemRole, adminFirebaseUid) ==
    LET admin == findUser(adminFirebaseUid)
        user == findUser(uid)
        validRoles == <<"super_admin", "system_admin", "user">>
    IN  IF ~Truthy(admin) \/ ~isSuperAdmin(admin)
        THEN RoleUpdate(FALSE, "AuthenticationError", users)
        ELSE IF ~Truthy(user) THEN RoleUpdate(FALSE, "AuthenticationError", users)
        ELSE IF ~(\E k \in DOMAIN validRoles : validRoles[k] = newSystemRole)
        THEN RoleUpdate(FALSE, "ValidationError", users)
        ELSE RoleUpdate(TRUE, "", updateSystemRole(user, newSystemRole))

UpdateUserSystemRole(uid, newSystemRole, adminFirebaseUid) ==
    /\ LET result == updateUserSystemRole(uid, newSystemRole, adminFirebaseUid)
       IN  /\ users' = result.users
           /\ last' = [op |-> "updateUserSystemRole", ok |-> result.ok,
                       target |-> uid, requester |-> adminFirebaseUid,
                       role |-> newSystemRole, error |-> result.error]
    /\ UNCHANGED <<rows, custom, req, guard, orgs, walk, slugs, procs, accounts>>

\* The store write of the call rejects: the error is rethrown.
UpdateUserSystemRoleFails(uid, newSystemRole, adminFirebaseUid) ==
    /\ updateUserSystemRole(uid, newSystemRole, adminFirebaseUid).ok
    /\ last' = [op |-> "updateUserSystemRole", ok |-> FALSE,
                target |-> uid, requester |-> adminFirebaseUid,
                role |-> newSystemRole, error |-> "DatabaseError"]
    /\ UNCHANGED <<rows, custom, req, guard, users, orgs, walk, slugs, procs, accounts>>

\* The values a caller passes as the new system role.
SystemRoleInputs == SystemRoles \cup {"owner", ""}

NextSystemRole ==
    \/ \E uid \in FirebaseUids, role \in SystemRoleInputs, admin \in FirebaseUids :
          UpdateUserSystemRole(uid, role, admin)
    \/ \E uid \in FirebaseUids, role \in SystemRoleInputs, admin \in FirebaseUids :
          UpdateUserSystemRoleFails(uid, role, admin)

SpecSystemRole == InitUsers /\ [][NextSystemRole]_vars

(***************************************************************************)
(* Properties of updateUserSystemRole (checked under SpecSystemRole).      *)
(***************************************************************************)
\* C39: a step changes a system role only if it is a call whose acting
\* admin exists and is a super admin before the call, whose target exists
\* and whose new role is one of the three system roles, and then only the
\* target's role changes, to the new role; every other call fails with an
\* error and leaves every system role as it was.
C39_SystemRoleChangesOnlyBySuperAdmin ==
    [][LET entitled ==
               /\ IsUser(last'.requester)
               /\ UserOf(last'.requester).v.systemRole = "super_admin"
               /\ IsUser(last'.target)
               /\ last'.role \in SystemRoles
       IN  /\ users' # users =>
                /\ entitled /\ last'.ok
                /\ \A i \in DOMAIN users :
                      users'[i] = IF firebaseUid(users[i]) = last'.target
                                  THEN User(users[i].v.id, last'.role) ELSE users[i]
           /\ ~entitled => (~last'.ok /\ last'.error # "" /\ users' = users)
           /\ last'.ok => entitled]_vars

\* A super admin has made another user a super admin.
C39_Witness ==
    /\ last.op = "updateUserSystemRole" /\ last.ok
    /\ last.target # last.requester
    /\ last.role = "super_admin"
    /\ UserOf(last.target).v.systemRole = "super_admin"
    /\ UserOf(last.requester).v.systemRole = "super_admin"

(***************************************************************************)
(* UserService.deactivateUser, deleteUser and restoreUser                  *)
(* (src/services/user.service.js): each writes the user's row in the store *)
(* and the user's record at the identity provider, one after the other.    *)
(***************************************************************************)
\* The ids of the three users and their records at the identity provider.
UserIds == {"u1", "u2", "u3"}

ProviderUids == {"f1", "f2", "f3"}

\* A write of a call that rejects: none, the store's or the provider's.
Faults == {"none", "store", "provider"}

\* user.isSystemAdmin()
isSystemAdmin(user) == user.v.systemRole \in {"super_admin", "system_admin"}

\* user.isDeleted()
isDeleted(user) == accounts.store[user.v.id].deleted

\* User.findOne({ where: { firebaseUid }, paranoid }): a paranoid lookup
\* does not see a soft-deleted row.
findOneUser(uid, paranoid) ==
    LET user == findUser(uid)
    IN  IF Truthy(user) /\ paranoid /\ isDeleted(user) THEN Null ELSE user

\* user.update({ isActive: false })
updateInactive(user) == [accounts.store EXCEPT ![user.v.id].isActive = FALSE]

\* user.softDelete()
softDelete(user) == [accounts.store EXCEPT ![user.v.id].deleted = TRUE]

\* user.restore()
restore(user) == [accounts.store EXCEPT ![user.v.id].deleted = FALSE]

\* getAuth().updateUser(firebaseUid, { disabled })
updateUser(uid, disabled) == [accounts.disabled EXCEPT ![uid] = disabled]

\* The outcome of a call: whether it returned, the error it threw, and the
\* store rows and provider records it leaves.
Outcome(ok, error, store, disabled) ==
    [ok |-> ok, error |-> error, store |-> store, disabled |-> disabled]

\* UserService.deactivateUser(firebaseUid, adminFirebaseUid)
deactivateUser(uid, adminFirebaseUid, fault) ==
    LET admin == findOneUser(adminFirebaseUid, TRUE)
        user == findOneUser(uid, TRUE)
    IN  IF ~Truthy(admin) \/ ~isSystemAdmin(admin)
        THEN Outcome(FALSE, "AuthenticationError", accounts.store, accounts.disabled)
        ELSE IF ~Truthy(user)
        THEN Outcome(FALSE, "AuthenticationError", accounts.store, accounts.disabled)
        ELSE IF isSuperAdmin(user) /\ ~isSuperAdmin(admin)
        THEN Outcome(FALSE, "AuthenticationError", accounts.store, accounts.disabled)
        ELSE IF fault = "store"
        THEN Outcome(FALSE, "DatabaseError", accounts.store, accounts.disabled)
        ELSE IF fault = "provider"
        THEN Outcome(FALSE, "FirebaseError", updateInactive(user), accounts.disabled)
        ELSE Outcome(TRUE, "", updateInactive(user), updateUser(uid, TRUE))

\* UserService.deleteUser(firebaseUid, adminFirebaseUid)
deleteUser(uid, adminFirebaseUid, fault) ==
    LET admin == findOneUser(adminFirebaseUid, TRUE)
        user == findOneUser(uid, TRUE)
    IN  IF ~Truthy(admin) \/ ~isSuperAdmin(admin)
        THEN Outcome(FALSE, "AuthenticationError", accounts.store, accounts.disabled)
        ELSE IF ~Truthy(user)
        THEN Outcome(FALSE, "AuthenticationError", accounts.store, accounts.disabled)
        ELSE IF fault = "provider"
        THEN Outcome(FALSE, "FirebaseError", accounts.store, accounts.disabled)
        ELSE IF fault = "store"
        THEN Outcome(FALSE, "DatabaseError", accounts.store, updateUser(uid, TRUE))
        ELSE Outcome(TRUE, "", softDelete(user), updateUser(uid, TRUE))

\* UserService.restoreUser(firebaseUid, adminFirebaseUid)
restoreUser(uid, adminFirebaseUid, fault) ==
    LET admin == findOneUser(adminFirebaseUid, TRUE)
        user == findOneUser(uid, FALSE)
    IN  IF ~Truthy(admin) \/ ~isSuperAdmin(admin)
        THEN Outcome(FALSE, "AuthenticationError", accounts.store, accounts.disabled)
        ELSE IF ~Truthy(user)
        THEN Outcome(FALSE, "AuthenticationError", accounts.store, accounts.disabled)
        ELSE IF ~isDeleted(user)
        THEN Outcome(FALSE, "ValidationError", accounts.store, accounts.disabled)
        ELSE IF fault = "provider"
        THEN Outcome(FALSE, "FirebaseError", accounts.store, accounts.disabled)
        ELSE IF fault = "store"
        THEN Outcome(FALSE, "DatabaseError", accounts.store, updateUser(uid, FALSE))
        ELSE Outcome(TRUE, "", restore(user), updateUser(uid, FALSE))

\* The store and the provider as a call leaves them, with what they were
\* when the call began kept beside them.
settled(result) ==
    [store |-> result.store, disabled |-> result.disabled,
     before |-> [store |-> accounts.store, disabled |-> accounts.disabled]]

\* The call and how it ended.
Ended(op, uid, adminFirebaseUid, fault, result) ==
    [op |-> op, ok |-> result.ok, target |-> uid, requester |-> adminFirebaseUid,
     fault |-> fault, error |-> result.error]

DeactivateUser(uid, adminFirebaseUid, fault) ==
    /\ LET result == deactivateUser(uid, adminFirebaseUid, fault)
       IN  /\ accounts' = settled(result)
           /\ last' = Ended("deactivateUser", uid, adminFirebaseUid, fault, result)
    /\ UNCHANGED <<rows, custom, req, guard, users, orgs, walk, slugs, procs>>

DeleteUser(uid, adminFirebaseUid, fault) ==
    /\ LET result == deleteUser(uid, adminFirebaseUid, fault)
       IN  /\ accounts' = settled(result)
           /\ last' = Ended("deleteUser", uid, adminFirebaseUid, fault, result)
    /\ UNCHANGED <<rows, custom, req, guard, users, orgs, walk, slugs, procs>>

RestoreUser(uid, adminFirebaseUid, fault) ==
    /\ LET result == restoreUser(uid, adminFirebaseUid, fault)
       IN  /\ accounts' = settled(result)
           /\ last' = Ended("restoreUser", uid, adminFirebaseUid, fault, result)
    /\ UNCHANGED <<rows, custom, req, guard, users, orgs, walk, slugs, procs>>

\* The users tables of the account operations: one user of each system
\* role, or two super admins and a system admin.
AccountTables ==
    {<<User("u1", "super_admin"), User("u2", "system_admin"), User("u3", "user")>>,
     <<User("u1", "super_admin"), User("u2", "super_admin"), User("u3", "system_admin")>>}

\* Every user is active, not deleted and enabled at the provider.
InitAccounts ==
    /\ rows = <<>>
    /\ custom = <<>>
    /\ last = NoCall
    /\ req = NoRequest
    /\ guard = NoGuard
    /\ users \in AccountTables
    /\ orgs = <<>>
    /\ walk = NoWalk
    /\ slugs = <<>>
    /\ procs = <<>>
    /\ accounts =
          LET store == [id \in UserIds |-> [isActive |-> TRUE, deleted |-> FALSE]]
              disabled == [uid \in ProviderUids |-> FALSE]
          IN  [store |-> store, disabled |-> disabled,
               before |-> [store |-> store, disabled |-> disabled]]

NextAccounts ==
    \/ \E uid \in ProviderUids, admin \in ProviderUids, fault \in Faults :
          DeactivateUser(uid, admin, fault)
    \/ \E uid \in ProviderUids, admin \in ProviderUids, fault \in Faults :
          DeleteUser(uid, admin, fault)
    \/ \E uid \in ProviderUids, admin \in ProviderUids, fault \in Faults :
          RestoreUser(uid, admin, fault)

SpecAccounts == InitAccounts /\ [][NextAccounts]_vars

(***************************************************************************)
(* Properties of the account operations (checked under SpecAccounts).      *)
(***************************************************************************)
\* The three account operations.
AccountOps == {"deactivateUser", "deleteUser", "restoreUser"}

\* C40: in every state reached by deactivateUser, deleteUser and
\* restoreUser calls, each of which may fail at its store write or at its
\* provider write, a user who is inactive or soft-deleted in the store is
\* disabled at the identity provider, and a call that ended in an error
\* has left the store rows and the provider records as they were before it.
C40_StoreAndProviderAgree ==
    /\ \A i \in DOMAIN users :
          LET row == accounts.store[users[i].v.id]
          IN  (~row.isActive \/ row.deleted) => accounts.disabled[firebaseUid(users[i])]
    /\ (last.op \in AccountOps /\ ~last.ok) =>
          /\ accounts.store = accounts.before.store
          /\ accounts.disabled = accounts.before.disabled

====
